---- MODULE Spec2Model ----
(***************************************************************************)
(* Model of the analytics core of nifty-breadth:                           *)
(*   - calculate_breadth (fetch_breadth_data.py): 200-day moving-average   *)
(*     classification and the equal-weighted index,                        *)
(*   - RRGCalculator (rrg_helper.py): resampling, alignment, RS-Ratio and  *)
(*     RS-Momentum.                                                        *)
(* A pandas float is modelled exactly, as a normalised fraction <<n, d>>    *)
(* with d > 0; NaN is <<0, 0>>.  Rounding of binary floating point is not  *)
(* modelled.                                                               *)
(***************************************************************************)
EXTENDS Integers, Sequences, FiniteSets, TLC

\* ------------------------------------------------------------------ bounds
\* Largest number of segments (runs of identical rows) of an input panel.
MaxSegs == 3
\* Periods an RRG input may span beyond the 22 the smoothing windows need.
MaxExtra == 1
\* Last day of the calendar of the dashboard session (days 0..MaxDay).
MaxDay == 2
\* Largest number of fetch launches counted in one session.
MaxLaunches == 3
\* Days the backtest loop runs over, after the 250 it skips.
MaxLoopDays == 4
\* Last date of the downloaded and stitched tables (dates 0..MaxStitchDay).
MaxStitchDay == 3

\* ------------------------------------------------------- program constants
\* rolling(window=200, min_periods=150)
W == 200
M == 150

\* ---------------------------------------------------------- float values
NaN == <<0, 0>>
isna(x) == x[2] = 0
notna(x) == x[2] # 0

Abs(n) == IF n < 0 THEN -n ELSE n

RECURSIVE Gcd(_, _)
Gcd(a, b) == IF b = 0 THEN a ELSE Gcd(b, a % b)

\* The fraction n/d in lowest terms with a positive denominator.
Frac(n, d) ==
  IF d = 0 THEN NaN
  ELSE LET g == Gcd(Abs(n), Abs(d))
           s == IF (n < 0) # (d < 0) THEN -1 ELSE 1
       IN  <<s * (Abs(n) \div g), Abs(d) \div g>>

Num(k) == <<k, 1>>

\* Sums go over the least common denominator and products cancel
\* crosswise first, which keeps the intermediate integers small.
FAdd(x, y) == IF isna(x) \/ isna(y) THEN NaN
              ELSE LET g == Gcd(x[2], y[2])
                   IN  Frac(x[1] * (y[2] \div g) + y[1] * (x[2] \div g),
                            x[2] * (y[2] \div g))
FNeg(x) == IF isna(x) THEN NaN ELSE <<-x[1], x[2]>>
FSub(x, y) == FAdd(x, FNeg(y))
FMul(x, y) == IF isna(x) \/ isna(y) THEN NaN
              ELSE LET a == Frac(x[1], y[2])
                       b == Frac(y[1], x[2])
                   IN  <<a[1] * b[1], a[2] * b[2]>>
\* 0/0 is NaN; a non-zero value is never divided by zero in this model
\* (prices and index levels are positive).
FDiv(x, y) == IF isna(x) \/ isna(y) \/ y[1] = 0 THEN NaN
              ELSE FMul(x, Frac(y[2], y[1]))
\* Comparisons with NaN are False, as in pandas.
FGt(x, y) == notna(x) /\ notna(y) /\ x[1] * y[2] > y[1] * x[2]
FLt(x, y) == notna(x) /\ notna(y) /\ x[1] * y[2] < y[1] * x[2]
FLe(x, y) == notna(x) /\ notna(y) /\ x[1] * y[2] <= y[1] * x[2]
fillna(x, v) == IF isna(x) THEN v ELSE x

\* ------------------------------------------------------------ price panel
Tickers == {"A", "B"}
\* A cell of the panel: a positive close, or a gap.  Ticker "A" moves
\* between two price levels, ticker "B" trades at one level or not at all.
Prices(t) == IF t = "A" THEN {NaN, Num(1), Num(2)} ELSE {NaN, Num(1)}
PanelRows == {row \in [Tickers -> {NaN, Num(1), Num(2)}] :
                \A t \in Tickers : row[t] \in Prices(t)}
\* The input panels are piecewise constant: segment k holds SegLen(k)
\* consecutive dates that all carry the same row.  The lengths put the
\* segment borders at rows 149/150 (the min_periods threshold) and 200/201
\* (the first row whose window no longer reaches back to row 1).
SegLen(k) == IF k = 1 THEN 149 ELSE IF k % 2 = 0 THEN 1 ELSE 51

VARIABLES
  \* calculate_breadth
  full_data,        \* the panel: a sequence of rows, each [Tickers -> float]
  pc,               \* "start" until calculate_breadth has run, then "done"
  sma_200,          \* local of calculate_breadth: [Tickers -> Seq(float)]
  daily_returns,    \* local of calculate_breadth: [Tickers -> Seq(float)]
  new_stock_count,  \* local of calculate_breadth: Seq(Nat)
  breadth_df,       \* result: Seq of [Above, Below, Total, Percentage, Index_Close]
  above_list,       \* result: tickers above their average on the last date
  below_list,       \* result: tickers at or below it
  new_stock_list,   \* result: tickers with a price but no average
  \* RRGCalculator
  benchmark,        \* self.benchmark: Seq of [Date, Index_Close], sorted by Date
  df_dict,          \* argument: ticker name -> Seq of [Date, Index_Close]
  timeframe,        \* argument: "D", "W" or "M"
  rrg_pc,           \* "start" until calculate_rrg_metrics has run, then "done"
  bench_resampled,  \* local: the benchmark after _resample
  asset_resampled,  \* local, per ticker: the asset after _resample
  combined,         \* local, per ticker: the joined table with its metric columns
  results,          \* result: Seq of [Date, Ticker, RS_Ratio, RS_Momentum]
  benchmark_df,     \* the caller's table given to RRGCalculator(benchmark_df)
  order,            \* the keys of df_dict in the order df_dict.items() yields them
  tail_length,      \* argument tail_length
  prev,             \* what the previous call on this calculator was and returned
  \* the RRG view of app.py
  selected,         \* selected_rrg_themes
  last_points,      \* last_points_global: ticker -> [RS_Ratio, RS_Momentum, Quadrant]
  rrg_view          \* the rows that are displayed

VARIABLES
  \* check_and_update_data (app.py)
  data_updated,     \* 'data_updated' in st.session_state
  launches,         \* fetch_breadth_data.py subprocesses launched in this session
  last_outcome,     \* what the latest invocation did
  csv,              \* market_breadth_nifty50.csv: [kind, last_date]
  today,            \* datetime.now().date(), a day number
  now_time,         \* datetime.now().time(), minutes since midnight
  cache,            \* st.cache_data: "warm" or "empty"
  app_pc            \* "idle" between script runs, "rerun" after st.rerun(),
                    \* "rest" while the rest of the script runs

VARIABLES
  \* backtest_nifty500_strategy (backtest_strategy.py)
  prices_df,        \* the fetched panel: a sequence of rows [Tickers -> float]
  bt_sma_200,       \* sma_200 of the backtest: [Tickers -> Seq(float)]
  breadth_pct,      \* Seq(float), one per row of prices_df
  bt_i,             \* the loop index i (0-based row number) of the next day
  in_trade,
  entry_date,       \* a Date, or NoDate
  entry_basket,     \* Seq of tickers
  entry_prices,     \* ticker -> price, over the tickers of the basket
  trades,           \* the recorded trades
  bt_pc             \* "start", "loop", "done"

VARIABLES
  \* fetch_historical_data (fetch_breadth_data.py), from line 170 on
  live_data,        \* full_data after the download: Seq of [Date, Close: ticker -> float]
  stitched_files,   \* ticker -> [kind, rows: Seq of [Date, Close]]
  fh_full_data,     \* full_data as returned
  fh_pc             \* "start", "done"

VARIABLES
  \* main (fetch_breadth_data.py): the batch run over all universes
  task_map,         \* Name -> tickers, for the universes that have tickers
  all_tickers,      \* the set of tickers to fetch
  master_data,      \* [rows, columns] of the fetched panel
  market_details,   \* Name -> [above, below, new_stock]
  csv_files,        \* the names of the universes whose breadth csv is written
  status_json,      \* <<>>, or <<market_details>> as dumped at the end
  raised,           \* the universes whose processing raised
  gather_i,         \* position in all_tasks of the first loop
  task_i,           \* position in all_tasks of the second loop
  exit_code,        \* NoExit while the process runs
  batch_pc          \* "gather", "fetch", "process", "save", "done", "exit"

VARIABLES
  \* the phase filter of the RRG view (app.py), over the session state
  selected_phases,  \* st.session_state['selected_phases']
  rrg_multiselect,  \* st.session_state['rrg_multiselect']
  last_phase_hash,  \* st.session_state['last_phase_hash'], or NoHash
  quadrants,        \* the Quadrant column of last_points_global this run
  forced_count,     \* forced reruns since the user last changed the phases
  manual_sel,       \* <<>>, or <<s>>: the user set the themes to s while
                    \* the phases were the recorded ones, and has changed
                    \* neither since
  ph_pc             \* "idle" between script runs, "run" when a run is due

breadthVars == <<full_data, pc, sma_200, daily_returns, new_stock_count, breadth_df,
                 above_list, below_list, new_stock_list>>
rrgVars == <<benchmark, df_dict, timeframe, rrg_pc, bench_resampled,
             asset_resampled, combined, results, benchmark_df, order,
             tail_length, prev>>
appVars == <<selected, last_points, rrg_view>>
updVars == <<data_updated, launches, last_outcome, csv, today, now_time, cache,
             app_pc>>
\* The variables of the components other than the analytics core.
btVars == <<prices_df, bt_sma_200, breadth_pct, bt_i, in_trade, entry_date,
            entry_basket, entry_prices, trades, bt_pc>>
fhVars == <<live_data, stitched_files, fh_full_data, fh_pc>>
batchVars == <<task_map, all_tickers, master_data, market_details, csv_files,
               status_json, raised, gather_i, task_i, exit_code, batch_pc>>
phaseVars == <<selected_phases, rrg_multiselect, last_phase_hash, quadrants,
               forced_count, manual_sel, ph_pc>>
sideVars == <<updVars, btVars, fhVars, batchVars, phaseVars>>
vars == <<breadthVars, rrgVars, appVars, sideVars>>

\* No dashboard session exists.
UpdIdle ==
  /\ data_updated = FALSE
  /\ launches = 0
  /\ last_outcome = "none"
  /\ csv = [kind |-> "missing", last_date |-> 0]
  /\ today = 0
  /\ now_time = 0
  /\ cache = "empty"
  /\ app_pc = "off"

NoDate == -1
\* The backtest is not running.
BtIdle ==
  /\ prices_df = <<>>
  /\ bt_sma_200 = <<>>
  /\ breadth_pct = <<>>
  /\ bt_i = 0
  /\ in_trade = FALSE
  /\ entry_date = NoDate
  /\ entry_basket = <<>>
  /\ entry_prices = <<>>
  /\ trades = <<>>
  /\ bt_pc = "off"

\* fetch_historical_data is not running.
FhIdle ==
  /\ live_data = <<>>
  /\ stitched_files = <<>>
  /\ fh_full_data = <<>>
  /\ fh_pc = "off"

NoExit == -1
\* The batch is not running.
BatchIdle ==
  /\ task_map = <<>>
  /\ all_tickers = {}
  /\ master_data = [rows |-> 0, columns |-> {}]
  /\ market_details = <<>>
  /\ csv_files = {}
  /\ status_json = <<>>
  /\ raised = {}
  /\ gather_i = 0
  /\ task_i = 0
  /\ exit_code = NoExit
  /\ batch_pc = "off"

NoHash == -1
\* The RRG view is not open.
PhaseIdle ==
  /\ selected_phases = {}
  /\ rrg_multiselect = {}
  /\ last_phase_hash = NoHash
  /\ quadrants = <<>>
  /\ forced_count = 0
  /\ manual_sel = <<>>
  /\ ph_pc = "off"

SideIdle == UpdIdle /\ BtIdle /\ FhIdle /\ BatchIdle /\ PhaseIdle

Column(df, t) == [i \in 1..Len(df) |-> df[i][t]]

Repeat(row, n) == [i \in 1..n |-> row]

\* ------------------------------------------------- rolling(...).mean()
\* Variant: the value leaving the window is never removed (an expanding
\* mean instead of a trailing one).
RollStep_NoRemove(values, window, minp, i, st) ==
  LET new == values[i]
      n1  == IF notna(new) THEN st.nobs + 1 ELSE st.nobs
      s1  == IF notna(new) THEN FAdd(st.sum_x, new) ELSE st.sum_x
      res == IF n1 >= minp /\ n1 > 0 THEN FDiv(s1, Num(n1)) ELSE NaN
  IN  [nobs |-> n1, sum_x |-> s1, out |-> Append(st.out, res)]

\* pandas' sliding-window mean: the running count and sum of the non-NaN
\* values in the window, one value entering and one leaving per row.  st is
\* the window state [nobs, sum_x, out]; rows lo..hi are processed in order
\* (the range is split in halves, and the left half's state is evaluated
\* before the right half starts, only to bound the evaluation depth).
RollStep(values, window, minp, i, st) ==
  LET new == values[i]
      old == IF i > window THEN values[i - window] ELSE NaN
      n1  == IF notna(new) THEN st.nobs + 1 ELSE st.nobs
      s1  == IF notna(new) THEN FAdd(st.sum_x, new) ELSE st.sum_x
      n2  == IF notna(old) THEN n1 - 1 ELSE n1
      s2  == IF notna(old) THEN FSub(s1, old) ELSE s1
      res == IF n2 >= minp /\ n2 > 0 THEN FDiv(s2, Num(n2)) ELSE NaN
  IN  [nobs |-> n2, sum_x |-> s2, out |-> Append(st.out, res)]

RECURSIVE roll_mean(_, _, _, _, _, _)
roll_mean(values, window, minp, lo, hi, st) ==
  IF lo > hi THEN st
  ELSE IF lo = hi THEN RollStep(values, window, minp, lo, st)
  ELSE LET mid  == (lo + hi) \div 2
           left == roll_mean(values, window, minp, lo, mid, st)
       IN  IF left.nobs >= 0
           THEN roll_mean(values, window, minp, mid + 1, hi, left)
           ELSE left

\* Variant: a mean is given as soon as the window holds one value.
rolling_mean_Partial(values, window, minp) ==
  roll_mean(values, window, 1, 1, Len(values),
            [nobs |-> 0, sum_x |-> Num(0), out |-> <<>>]).out

\* values.rolling(window=window, min_periods=minp).mean()
rolling_mean(values, window, minp) ==
  roll_mean(values, window, minp, 1, Len(values),
            [nobs |-> 0, sum_x |-> Num(0), out |-> <<>>]).out

Sma200(df) == [t \in Tickers |-> rolling_mean(Column(df, t), W, M)]

\* ------------------------------------------------------- pct_change()
\* DataFrame.pct_change() with pandas' default fill_method='pad': gaps are
\* forward-filled first, then each row is divided by the row before it.
FfillStep(values, i, st) ==
  LET v == IF notna(values[i]) THEN values[i] ELSE st.last
  IN  [last |-> v, out |-> Append(st.out, v)]

RECURSIVE ffill_from(_, _, _, _)
ffill_from(values, lo, hi, st) ==
  IF lo > hi THEN st
  ELSE IF lo = hi THEN FfillStep(values, lo, st)
  ELSE LET mid  == (lo + hi) \div 2
           left == ffill_from(values, lo, mid, st)
       IN  IF Len(left.out) >= 0
           THEN ffill_from(values, mid + 1, hi, left)
           ELSE left

ffill(values) == ffill_from(values, 1, Len(values), [last |-> NaN, out |-> <<>>]).out

pct_change(values) ==
  LET filled == ffill(values)
  IN  [i \in 1..Len(values) |->
         IF i = 1 THEN NaN
         ELSE FSub(FDiv(filled[i], filled[i - 1]), Num(1))]

DailyReturns(df) == [t \in Tickers |-> pct_change(Column(df, t))]

\* ------------------------------------------------------- mean(axis=1)
RECURSIVE SumSet(_, _)
SumSet(S, f) ==
  IF S = {} THEN Num(0)
  ELSE LET t == CHOOSE x \in S : TRUE
       IN  FAdd(f[t], SumSet(S \ {t}, f))

\* Row mean skipping NaN; NaN when the row has no value.
\* Variant: divides by the number of columns, NaN counted as 0.
RowMean_AllColumns(row) ==
  LET have == {t \in DOMAIN row : notna(row[t])}
  IN  IF have = {} THEN NaN
      ELSE FDiv(SumSet(have, row), Num(Cardinality(DOMAIN row)))

RowMean(row) ==
  LET have == {t \in DOMAIN row : notna(row[t])}
  IN  IF have = {} THEN NaN
      ELSE FDiv(SumSet(have, row), Num(Cardinality(have)))

IndexDailyReturn(rets, i) == RowMean([t \in Tickers |-> rets[t][i]])

\* (1 + r.fillna(0)).cumprod() * 100
CumprodStep(values, i, st) ==
  LET p == FMul(st.acc, values[i])
  IN  [acc |-> p, out |-> Append(st.out, p)]

RECURSIVE cumprod_from(_, _, _, _)
cumprod_from(values, lo, hi, st) ==
  IF lo > hi THEN st
  ELSE IF lo = hi THEN CumprodStep(values, lo, st)
  ELSE LET mid  == (lo + hi) \div 2
           left == cumprod_from(values, lo, mid, st)
       IN  IF Len(left.out) >= 0
           THEN cumprod_from(values, mid + 1, hi, left)
           ELSE left

cumprod(values) == cumprod_from(values, 1, Len(values), [acc |-> Num(1), out |-> <<>>]).out

\* Variant: the NaN of a day without returns is not replaced by 0.
IndexClose_NoFill(rets, n) ==
  LET growth == [i \in 1..n |-> FAdd(Num(1), IndexDailyReturn(rets, i))]
      cp == cumprod(growth)
  IN  [i \in 1..n |-> FMul(cp[i], Num(100))]

IndexClose(rets, n) ==
  LET growth == [i \in 1..n |-> FAdd(Num(1), fillna(IndexDailyReturn(rets, i), Num(0)))]
      cp == cumprod(growth)
  IN  [i \in 1..n |-> FMul(cp[i], Num(100))]

\* ------------------------------------------------------------ the counts
is_above(df, sma, i, t) == FGt(df[i][t], sma[t][i])
\* Variant: a defined average is enough, the price is not looked at.
valid_universe_SmaOnly(df, sma, i, t) == notna(sma[t][i])

valid_universe(df, sma, i, t) == notna(sma[t][i]) /\ notna(df[i][t])
new_stock_universe(df, sma, i, t) == notna(df[i][t]) /\ isna(sma[t][i])

above_count(df, sma, i) ==
  Cardinality({t \in Tickers : is_above(df, sma, i, t) /\ valid_universe(df, sma, i, t)})
total_valid(df, sma, i) ==
  Cardinality({t \in Tickers : valid_universe(df, sma, i, t)})
below_count(df, sma, i) == total_valid(df, sma, i) - above_count(df, sma, i)
NewStockCount(df, sma, i) ==
  Cardinality({t \in Tickers : new_stock_universe(df, sma, i, t)})
\* Variant: the new listings are left out of the total.
total_trading_ValidOnly(df, sma, i) == total_valid(df, sma, i)

total_trading(df, sma, i) == total_valid(df, sma, i) + NewStockCount(df, sma, i)
\* Variant: the share is taken of all trading tickers.
percentage_OfTrading(df, sma, i) ==
  fillna(FMul(FDiv(Num(above_count(df, sma, i)), Num(total_trading(df, sma, i))),
              Num(100)),
         Num(0))

\* Variant: the 0/0 of an empty valid universe is left NaN.
percentage_NoFill(df, sma, i) ==
  FMul(FDiv(Num(above_count(df, sma, i)), Num(total_valid(df, sma, i))), Num(100))

percentage(df, sma, i) ==
  fillna(FMul(FDiv(Num(above_count(df, sma, i)), Num(total_valid(df, sma, i))),
              Num(100)),
         Num(0))

BreadthDf(df, sma, rets) ==
  LET ic == IndexClose(rets, Len(df))
  IN  [i \in 1..Len(df) |->
         [Above       |-> above_count(df, sma, i),
          Below       |-> below_count(df, sma, i),
          Total       |-> total_trading(df, sma, i),
          Percentage  |-> percentage(df, sma, i),
          Index_Close |-> ic[i]]]

\* ---------------------------------------------------------------- actions
RECURSIVE PanelOf(_, _)
PanelOf(rows, k) ==
  IF k = 0 THEN <<>> ELSE PanelOf(rows, k - 1) \o Repeat(rows[k], SegLen(k))

\* Any panel of up to MaxSegs segments is handed to calculate_breadth.
BreadthInit ==
  /\ \E k \in 0..MaxSegs : \E rows \in [1..k -> PanelRows] :
       full_data = PanelOf(rows, k)
  /\ pc = "start"
  /\ sma_200 = [t \in Tickers |-> <<>>]
  /\ daily_returns = [t \in Tickers |-> <<>>]
  /\ new_stock_count = <<>>
  /\ breadth_df = <<>>
  /\ above_list = <<>>
  /\ below_list = <<>>
  /\ new_stock_list = <<>>

\* full_data.columns, in their order.
Columns == <<"A", "B">>
InAboveList(price, sma) == notna(price) /\ notna(sma) /\ FGt(price, sma)
InBelowList(price, sma) == notna(price) /\ notna(sma) /\ ~FGt(price, sma)
\* Variant: every ticker without an average is a new stock.
InNewStockList_NoSma(price, sma) == isna(sma)

InNewStockList(price, sma) == ~(notna(price) /\ notna(sma)) /\ notna(price)
\* The test of the list of one kind.
InList(kind, price, sma) ==
  IF kind = "above" THEN InAboveList(price, sma)
  ELSE IF kind = "below" THEN InBelowList(price, sma)
  ELSE InNewStockList(price, sma)

\* Lines 269-291: the columns whose latest price and average pass the
\* test of the list, none for an empty panel.
LatestList(df, sma, kind) ==
  IF df = <<>> THEN <<>>
  ELSE LET Sel(t) == InList(kind, df[Len(df)][t], sma[t][Len(df)])
       IN  SelectSeq(Columns, Sel)

CalculateBreadth ==
  /\ pc = "start"
  /\ sma_200' = Sma200(full_data)
  /\ daily_returns' = DailyReturns(full_data)
  /\ new_stock_count' =
       [i \in 1..Len(full_data) |-> NewStockCount(full_data, sma_200', i)]
  /\ breadth_df' = BreadthDf(full_data, sma_200', daily_returns')
  /\ above_list' = LatestList(full_data, sma_200', "above")
  /\ below_list' = LatestList(full_data, sma_200', "below")
  /\ new_stock_list' = LatestList(full_data, sma_200', "new_stock")
  /\ pc' = "done"
  /\ UNCHANGED <<full_data, rrgVars, appVars, sideVars>>

BreadthIdle ==
  /\ full_data = <<>>
  /\ pc = "idle"
  /\ sma_200 = [t \in Tickers |-> <<>>]
  /\ daily_returns = [t \in Tickers |-> <<>>]
  /\ new_stock_count = <<>>
  /\ breadth_df = <<>>
  /\ above_list = <<>>
  /\ below_list = <<>>
  /\ new_stock_list = <<>>

\* ============================================================ RRGCalculator
\* A Date is a day number, day 0 being Thursday 2015-01-01 (the dashboard
\* loads no earlier date).  A table is a sequence of rows [Date, Index_Close].

\* --------------------------------------------------------------- calendar
\* Monday = 0 ... Sunday = 6.
Weekday(d) == (d + 3) % 7
\* The Friday on or after d: the label of d's bin under rule 'W-FRI'.
WeekEnd(d) == d + ((4 - Weekday(d) + 7) % 7)

IsLeap(y) == (y % 4 = 0 /\ y % 100 # 0) \/ y % 400 = 0
DaysInMonth(y, m) ==
  IF m = 2 THEN (IF IsLeap(y) THEN 29 ELSE 28)
  ELSE IF m \in {4, 6, 9, 11} THEN 30 ELSE 31

\* The calendar date of day d (day 0 is 2015-01-01): the count of days is
\* moved to the era starting 0000-03-01 and split into year, month and day.
CivilDate(d) ==
  LET z   == d + 735904
      era == z \div 146097
      doe == z - era * 146097
      yoe == (doe - doe \div 1460 + doe \div 36524 - doe \div 146096) \div 365
      doy == doe - (365 * yoe + yoe \div 4 - yoe \div 100)
      mp  == (5 * doy + 2) \div 153
      m   == IF mp < 10 THEN mp + 3 ELSE mp - 9
  IN  [year  |-> yoe + era * 400 + (IF m <= 2 THEN 1 ELSE 0),
       month |-> m,
       day   |-> doy - (153 * mp + 2) \div 5 + 1]
\* The last day of d's calendar month: the label of d's bin under rule 'M'.
MonthEnd(d) ==
  LET c == CivilDate(d) IN d - c.day + DaysInMonth(c.year, c.month)

\* Variant: the bins are closed on the left, so a row on a period end
\* belongs to the next period.
PeriodEnd_After(rule, d) ==
  IF rule = "W-FRI" THEN WeekEnd(d + 1) ELSE MonthEnd(d + 1)

PeriodEnd(rule, d) == IF rule = "W-FRI" THEN WeekEnd(d) ELSE MonthEnd(d)
NextPeriodEnd(rule, p) == IF rule = "W-FRI" THEN p + 7 ELSE MonthEnd(p + 1)

\* ------------------------------------------------------------- _resample
\* The labels of the consecutive bins from the one holding day first to
\* the one holding day last, in increasing order.
BinLabels(rule, first, last) ==
  LET ends == {PeriodEnd(rule, d) : d \in first..last}
  IN  [k \in 1..Cardinality(ends) |->
         CHOOSE p \in ends : Cardinality({q \in ends : q <= p}) = k] \o <<>>

MaxOf(S) == CHOOSE x \in S : \A y \in S : y <= x

\* Variant: the first value of the bin instead of the last.
BinLast_First(df, lo, hi) ==
  LET idx == {i \in 1..Len(df) :
                lo < df[i].Date /\ df[i].Date <= hi /\ notna(df[i].Index_Close)}
  IN  IF idx = {} THEN NaN
      ELSE df[CHOOSE i \in idx : \A j \in idx : i <= j].Index_Close

\* .last(): the last value that is not NaN among the rows of the bin
\* (lo, hi], NaN when the bin has none.
BinLast(df, lo, hi) ==
  LET idx == {i \in 1..Len(df) :
                lo < df[i].Date /\ df[i].Date <= hi /\ notna(df[i].Index_Close)}
  IN  IF idx = {} THEN NaN ELSE df[MaxOf(idx)].Index_Close

\* df.resample(rule).last(): one row per bin between the first and the last
\* date of df, bins closed and labelled on the right.
resample_last(df, rule) ==
  IF Len(df) = 0 THEN <<>>
  ELSE LET labels == BinLabels(rule, df[1].Date, df[Len(df)].Date)
       IN  [k \in 1..Len(labels) |->
              [Date |-> labels[k],
               Index_Close |->
                 BinLast(df, IF k = 1 THEN -1 ELSE labels[k - 1], labels[k])]]

IsValue(row) == notna(row.Index_Close)
dropna(df) == SelectSeq(df, IsValue)

_resample(df, tf) ==
  IF tf = "D" THEN df
  ELSE dropna(resample_last(df, IF tf = "W" THEN "W-FRI" ELSE "M"))

\* ------------------------------------------------ calculate_rrg_metrics
window_ratio == 14
window_mom == 9
\* tail_data = combined.iloc[-30:]
TailKeep == 30

\* set_index('Date').sort_index(): the rows by increasing Date.
sort_index(df) ==
  LET n    == Len(df)
      rank == [i \in 1..n |->
                 Cardinality({j \in 1..n :
                                \/ df[j].Date < df[i].Date
                                \/ df[j].Date = df[i].Date /\ j <= i})] \o <<>>
  IN  [k \in 1..n |-> df[CHOOSE i \in 1..n : rank[i] = k]]

DatesOf(df) == {df[i].Date : i \in 1..Len(df)}
ValueAt(df, d) == df[CHOOSE i \in 1..Len(df) : df[i].Date = d].Index_Close

\* Variant: a left join, every date of the asset is kept.
Join_Left(asset, bench) ==
  [i \in 1..Len(asset) |->
     [Date |-> asset[i].Date, Asset |-> asset[i].Index_Close,
      Benchmark |-> IF asset[i].Date \in DatesOf(bench)
                    THEN ValueAt(bench, asset[i].Date) ELSE NaN]]

\* pd.concat([asset, bench], axis=1, join='inner') with the columns named
\* Asset and Benchmark: the dates both have, in the asset's order.
Join(asset, bench) ==
  LET InBench(row) == row.Date \in DatesOf(bench)
      Row(row) == [Date |-> row.Date, Asset |-> row.Index_Close,
                   Benchmark |-> ValueAt(bench, row.Date)]
      kept == SelectSeq(asset, InBench)
  IN  [k \in 1..Len(kept) |-> Row(kept[k])]

\* Variant: the factor 100 is left out.
Scale100_One(x) == x

Scale100(x) == FMul(Num(100), x)

\* The columns RS, RS_MA, RS_Ratio, Ratio_MA and RS_Momentum added to the
\* joined table, before dropna(). The columns are computed one after the
\* other, as the statements of the code are.
Metrics(joined) ==
  LET n        == Len(joined)
      rs       == [k \in 1..n |->
                     Scale100(FDiv(joined[k].Asset, joined[k].Benchmark))]
      rs_ma    == rolling_mean(rs, window_ratio, window_ratio)
      ratio    == [k \in 1..n |-> Scale100(FDiv(rs[k], rs_ma[k]))]
      ratio_ma == rolling_mean(ratio, window_mom, window_mom)
  IN  IF Len(rs_ma) = n /\ Len(ratio_ma) = n
      THEN [k \in 1..n |->
              [Date        |-> joined[k].Date,
               Asset       |-> joined[k].Asset,
               Benchmark   |-> joined[k].Benchmark,
               RS          |-> rs[k],
               RS_MA       |-> rs_ma[k],
               RS_Ratio    |-> ratio[k],
               Ratio_MA    |-> ratio_ma[k],
               RS_Momentum |-> Scale100(FDiv(ratio[k], ratio_ma[k]))]]
      ELSE <<>>

NoNaN(row) ==
  /\ notna(row.Asset) /\ notna(row.Benchmark) /\ notna(row.RS)
  /\ notna(row.RS_MA) /\ notna(row.RS_Ratio) /\ notna(row.Ratio_MA)
  /\ notna(row.RS_Momentum)

\* Variant: the last tail_length rows are kept, for the default tail_length.
TailData_Default(table) ==
  LET kept == SelectSeq(table, NoNaN)
  IN  SubSeq(kept, IF Len(kept) > 10 THEN Len(kept) - 10 + 1 ELSE 1, Len(kept))

\* Variant: the first rows are kept, not the last.
TailData_Head(table) ==
  LET kept == SelectSeq(table, NoNaN)
  IN  SubSeq(kept, 1, IF Len(kept) > TailKeep THEN TailKeep ELSE Len(kept))

\* Variant: the rows with an undefined value are not dropped.
TailData_KeepNaN(table) ==
  SubSeq(table, IF Len(table) > TailKeep THEN Len(table) - TailKeep + 1 ELSE 1,
         Len(table))

\* combined.dropna().iloc[-30:]
TailData(table) ==
  LET kept == SelectSeq(table, NoNaN)
  IN  SubSeq(kept, IF Len(kept) > TailKeep THEN Len(kept) - TailKeep + 1 ELSE 1,
             Len(kept))

\* The rows one ticker adds to results.
PointsOf(name, table) ==
  LET tail == TailData(table)
  IN  [k \in 1..Len(tail) |->
         [Date |-> tail[k].Date, Ticker |-> name,
          RS_Ratio |-> tail[k].RS_Ratio, RS_Momentum |-> tail[k].RS_Momentum]]

\* The tickers of the model, in the order a dict built X first yields them.
NameOrder == <<"X", "Y">>
Names == {NameOrder[i] : i \in 1..Len(NameOrder)}

\* A ticker that the loop passes over: `if df.empty` or `if combined.empty`.
Skipped(dict, tables, name) == Len(dict[name]) = 0 \/ Len(tables[name]) = 0

\* Variant: the loop ends at the first ticker it would pass over.
RECURSIVE ResultsFrom_Break(_, _, _, _)
ResultsFrom_Break(keys, dict, tables, i) ==
  IF i > Len(keys) \/ Skipped(dict, tables, keys[i]) THEN <<>>
  ELSE PointsOf(keys[i], tables[keys[i]])
         \o ResultsFrom_Break(keys, dict, tables, i + 1)

\* Variant: the function returns after the first ticker of the loop.
ResultsFrom_FirstOnly(keys, dict, tables, i) ==
  IF i > Len(keys) \/ Skipped(dict, tables, keys[i]) THEN <<>>
  ELSE PointsOf(keys[i], tables[keys[i]])

\* The loop over df_dict.items() from the i-th ticker on: the rows appended
\* to results.
RECURSIVE ResultsFrom(_, _, _, _)
ResultsFrom(keys, dict, tables, i) ==
  IF i > Len(keys) THEN <<>>
  ELSE (IF Skipped(dict, tables, keys[i]) THEN <<>>
        ELSE PointsOf(keys[i], tables[keys[i]]))
       \o ResultsFrom(keys, dict, tables, i + 1)

\* The keys of a dict over the tickers in names, built in NameOrder.
KeysOf(names) == LET In(name) == name \in names IN SelectSeq(NameOrder, In)

\* ------------------------------------------------------------ the inputs
\* A table with one row every `stride` days from `start` up to day
\* `horizon`; Index_Close is `lo` before day `switch` and `hi` from it on,
\* the `run` rows from position `skip` on are absent and the row at
\* position `gap` holds NaN (0: no such row).
DayRows(start, stride, horizon, switch, lo, hi, skip, run, gap) ==
  LET n    == IF horizon < start THEN 0 ELSE (horizon - start) \div stride + 1
      gone == Cardinality((skip .. skip + run - 1) \cap (1..n))
  IN  [j \in 1..(n - gone) |->
         LET k == IF j < skip THEN j ELSE j + run
             d == start + (k - 1) * stride
         IN  [Date |-> d,
              Index_Close |-> IF k = gap THEN NaN
                              ELSE IF d < switch THEN Num(lo) ELSE Num(hi)]]

Unit(tf) == IF tf = "D" THEN 1 ELSE IF tf = "W" THEN 7 ELSE 31
\* Spacings of the rows: one row per period, or rows that fall several to
\* a period (Daily: every other day).
Strides(tf) ==
  IF tf = "D" THEN {1, 2} ELSE IF tf = "W" THEN {7, 3} ELSE {31, 15}
\* The number of periods the tables span: a few, or about as many as the
\* two smoothing windows need.
Spans == {3} \cup (window_ratio + window_mom - 1 .. window_ratio + window_mom + MaxExtra)

\* How the rows of the asset lie against those of the benchmark.
Shapes ==
  {"same", "dense", "denseAsset", "denseBenchmark", "offset", "skip",
   "skipBenchmark", "sparse", "apart"}

\* def calculate_rrg_metrics(self, df_dict, timeframe='D', tail_length=10)
DefaultTail == 10

\* The locals and the result before any call.
NoCallYet ==
  /\ bench_resampled = <<>>
  /\ asset_resampled = <<>>
  /\ combined = <<>>
  /\ results = <<>>
  /\ prev = <<>>

RRGInit ==
  /\ timeframe \in {"D", "W", "M"}
  /\ \E span \in Spans, shape \in Shapes, gap \in {0, 2}, late \in {0, 1, 2},
        mover \in {"asset", "benchmark"}, other \in {"none", "empty", "level"} :
       LET u      == Unit(timeframe)
           h      == span * u - 1
           switch == IF late = 0 THEN 0 ELSE IF late = 1 THEN 3 * u ELSE h - u + 1
           wide   == MaxOf(Strides(timeframe))
           tight  == CHOOSE x \in Strides(timeframe) : x # wide
           sb     == IF shape \in {"dense", "denseBenchmark", "apart"}
                     THEN tight ELSE wide
           sa     == IF shape \in {"dense", "denseAsset", "sparse", "apart"}
                     THEN tight ELSE wide
           start  == IF shape = "offset" THEN 1
                     ELSE IF shape = "apart" THEN h + 1 ELSE 0
           ha     == IF shape = "apart" THEN h + 3 * u ELSE h
           run    == IF shape = "skip" THEN 1 ELSE IF shape = "sparse" THEN 5 ELSE 0
           runB   == IF shape = "skipBenchmark" THEN 1 ELSE 0
       IN  /\ (gap # 0 \/ other # "none") => (late = 0 /\ mover = "asset")
           /\ gap # 0 => other = "none"
           /\ benchmark =
                IF mover = "benchmark"
                THEN DayRows(0, sb, h, switch, 1, 15, 10, runB, 0)
                ELSE DayRows(0, sb, h, 0, 1, 1, 10, runB, 0)
           /\ df_dict =
                LET x == IF mover = "asset"
                         THEN DayRows(start, sa, ha, switch, 1, 15, 10, run, gap)
                         ELSE DayRows(start, sa, ha, 0, 1, 1, 10, run, gap)
                IN  IF other = "none" THEN [name \in {"X"} |-> x]
                    ELSE [name \in Names |->
                            IF name = "X" THEN x
                            ELSE IF other = "empty" THEN <<>>
                            ELSE DayRows(0, sb, h, 0, 15, 15, 10, 0, 0)]
  /\ benchmark_df = benchmark
  /\ order = KeysOf(DOMAIN df_dict)
  /\ tail_length = DefaultTail
  /\ rrg_pc = "start"
  /\ NoCallYet

RRGIdle ==
  /\ benchmark = <<>>
  /\ benchmark_df = <<>>
  /\ df_dict = <<>>
  /\ order = <<>>
  /\ timeframe = "D"
  /\ tail_length = DefaultTail
  /\ rrg_pc = "idle"
  /\ NoCallYet

AppIdle ==
  /\ selected = {}
  /\ last_points = <<>>
  /\ rrg_view = <<>>

\* Variant: the resampled benchmark is stored back into self.benchmark.
StoredBenchmark_Resampled(bench, resampled) == resampled

\* self.benchmark after a call: bench_resampled is a local, and for 'D' the
\* very object self.benchmark, which nothing writes to.
StoredBenchmark(bench, resampled) == bench

\* Variant: without df.copy() the caller's table is the one that is
\* re-indexed, sorted and resampled.
CallerTable_NoCopy(df, prepared) == prepared

\* The caller's table after a call: the loop works on df.copy().
CallerTable(df, prepared) == df

\* One call of calculate_rrg_metrics(df_dict, timeframe, tail_length).
CalculateRRG ==
  /\ rrg_pc = "start"
  /\ bench_resampled' = _resample(benchmark, timeframe)
  /\ asset_resampled' =
       [name \in DOMAIN df_dict |-> _resample(sort_index(df_dict[name]), timeframe)]
  /\ combined' =
       [name \in DOMAIN df_dict |->
          Metrics(Join(asset_resampled'[name], bench_resampled'))]
  /\ results' = ResultsFrom(order, df_dict, combined', 1)
  /\ rrg_pc' = "done"
  /\ benchmark' = StoredBenchmark(benchmark, bench_resampled')
  /\ df_dict' = [name \in DOMAIN df_dict |->
                   CallerTable(df_dict[name], asset_resampled'[name])]
  /\ UNCHANGED <<benchmark_df, order, timeframe, tail_length, prev,
                 breadthVars, sideVars, appVars>>

\* ------------------------------------- several calls on one calculator
\* The values of the timeframe argument: the three cadences and one that
\* is none of them.
Cadences == {"D", "W", "M", "Q"}
\* The values of the tail_length argument.
TailArgs == {0, DefaultTail}
Reverse(seq) == [i \in 1..Len(seq) |-> seq[Len(seq) - i + 1]]
\* A table with one row a week over one period more than the smoothing
\* windows need; Index_Close is lo, and hi in the last week.
WeekRows(lo, hi) ==
  LET n == window_ratio + window_mom
  IN  DayRows(0, 7, 7 * n - 1, 7 * (n - 1), lo, hi, 1, 0, 0)

\* Before RRGCalculator(benchmark_df): the caller holds the benchmark
\* table, in either order of its rows, and the table of ticker X.
CallsInit ==
  /\ benchmark_df \in {WeekRows(1, 1), Reverse(WeekRows(1, 15))}
  /\ df_dict \in {[name \in {"X"} |-> WeekRows(1, 15)],
                  [name \in {"X"} |-> WeekRows(1, 1)]}
  /\ order = <<"X">>
  /\ benchmark = <<>>
  /\ timeframe = "D"
  /\ tail_length = DefaultTail
  /\ rrg_pc = "new"
  /\ NoCallYet
  /\ AppIdle

\* RRGCalculator.__init__: self.benchmark is a copy of benchmark_df, indexed
\* by Date and sorted.
Construct ==
  /\ rrg_pc = "new"
  /\ benchmark' = sort_index(benchmark_df)
  /\ benchmark_df' = CallerTable(benchmark_df, benchmark')
  /\ rrg_pc' = "idle"
  /\ UNCHANGED <<df_dict, order, timeframe, tail_length, prev, bench_resampled,
                 asset_resampled, combined, results, breadthVars, sideVars, appVars>>

\* The caller sets up the next call: a cadence, a tail length, and a dict
\* that holds X's table and, before or after it, possibly a ticker Y whose
\* table is empty or a level series.  The previous call's cadence, key
\* order and rows for X are remembered in prev.
BeginCall ==
  /\ rrg_pc \in {"idle", "done"}
  /\ timeframe' \in Cadences
  /\ tail_length' \in TailArgs
  /\ \E keys \in {<<"X">>, <<"X", "Y">>, <<"Y", "X">>},
        y \in {<<>>, WeekRows(15, 15)} :
       /\ order' = keys
       /\ df_dict' = [name \in {keys[i] : i \in 1..Len(keys)} |->
                        IF name = "X" THEN df_dict["X"] ELSE y]
  /\ prev' = IF rrg_pc = "done"
             THEN <<[timeframe |-> timeframe, order |-> order,
                     rows |-> LET Mine(row) == row.Ticker = "X"
                              IN  SelectSeq(results, Mine)]>>
             ELSE prev
  /\ bench_resampled' = <<>>
  /\ asset_resampled' = <<>>
  /\ combined' = <<>>
  /\ results' = <<>>
  /\ rrg_pc' = "start"
  /\ UNCHANGED <<benchmark, benchmark_df, breadthVars, sideVars, appVars>>

\* ---------------------------------------------------- the RRG view (app.py)
\* The choices of st.slider("Tail Length (Periods)", 1, 12, 5) in the model.
Sliders == {1, 2, 12}
\* The number of periods of the tables the app loads: a few, one more than
\* the smoothing windows need, and enough for more points than are kept.
AppSpans == {3, window_ratio + window_mom, window_ratio + window_mom + TailKeep}

\* The tables have one row per period; Index_Close moves from 1 to 15 in
\* the benchmark or in theme X, at a place given by `late`; theme Y, when
\* loaded, stays at 15.
AppInit ==
  /\ timeframe \in {"D", "W", "M"}
  /\ tail_length \in Sliders
  /\ \E span \in AppSpans, late \in 0..4, mover \in {"asset", "benchmark"},
        themes \in {{"X"}, {"X", "Y"}} :
       LET u      == Unit(timeframe)
           h      == span * u - 1
           switch == IF late = 0 THEN 0 ELSE IF late = 1 THEN 3 * u
                     ELSE IF late = 2 THEN h - u + 1
                     ELSE IF late = 3 THEN h - 10 * u ELSE h - 16 * u
           level  == DayRows(0, u, h, 0, 1, 1, 1, 0, 0)
           moving == DayRows(0, u, h, switch, 1, 15, 1, 0, 0)
       IN  /\ benchmark_df = IF mover = "benchmark" THEN moving ELSE level
           /\ df_dict = [name \in themes |->
                           IF name = "Y" THEN DayRows(0, u, h, 0, 15, 15, 1, 0, 0)
                           ELSE IF mover = "asset" THEN moving ELSE level]
           /\ order = KeysOf(themes)
  /\ benchmark = sort_index(benchmark_df)
  /\ rrg_pc = "start"
  /\ NoCallYet
  /\ AppIdle

\* Variant: a value of exactly 100 counts as above 100.
get_quadrant_Ties(row) ==
  LET r == row.RS_Ratio
      m == row.RS_Momentum
      c == Num(100)
  IN  IF ~FLt(r, c) /\ ~FLt(m, c) THEN "Leading"
      ELSE IF ~FLt(r, c) /\ FLt(m, c) THEN "Weakening"
      ELSE IF FLt(r, c) /\ FLt(m, c) THEN "Lagging"
      ELSE IF FLt(r, c) /\ ~FLt(m, c) THEN "Improving"
      ELSE "Unknown"

get_quadrant(row) ==
  LET r == row.RS_Ratio
      m == row.RS_Momentum
      c == Num(100)
  IN  IF FGt(r, c) /\ FGt(m, c) THEN "Leading"
      ELSE IF FGt(r, c) /\ FLt(m, c) THEN "Weakening"
      ELSE IF FLt(r, c) /\ FLt(m, c) THEN "Lagging"
      ELSE IF FLt(r, c) /\ FGt(m, c) THEN "Improving"
      ELSE "Unknown"

\* The row groupby('Ticker').last() gives a ticker after
\* sort_values('Date'): its row with the latest date.
LastOfGroup(rows, name) ==
  rows[CHOOSE p \in 1..Len(rows) :
         /\ rows[p].Ticker = name
         /\ \A q \in 1..Len(rows) :
              rows[q].Ticker = name => rows[q].Date <= rows[p].Date]

\* last_points_global with its Quadrant column.
LastPoints(rows) ==
  [name \in {rows[p].Ticker : p \in 1..Len(rows)} |->
     LET row == LastOfGroup(rows, name)
     IN  [RS_Ratio |-> row.RS_Ratio, RS_Momentum |-> row.RS_Momentum,
          Quadrant |-> get_quadrant(row)]]

\* Variant: head(n) in place of tail(n).
GroupTail_Head(rows, n) ==
  LET Kept(p) == Cardinality({q \in 1..p - 1 : rows[q].Ticker = rows[p].Ticker}) < n
      idx == {p \in 1..Len(rows) : Kept(p)}
  IN  [k \in 1..Cardinality(idx) |->
         rows[CHOOSE p \in idx : Cardinality({q \in idx : q <= p}) = k]]

\* rows.groupby('Ticker').tail(n) for n > 0: the rows that have fewer than
\* n later rows of their ticker, in the order of rows.
GroupTail(rows, n) ==
  LET Kept(p) == Cardinality({q \in p + 1..Len(rows) :
                                rows[q].Ticker = rows[p].Ticker}) < n
      idx == {p \in 1..Len(rows) : Kept(p)}
  IN  [k \in 1..Cardinality(idx) |->
         rows[CHOOSE p \in idx : Cardinality({q \in idx : q <= p}) = k]]

\* global_rrg_df[global_rrg_df['Ticker'].isin(sel)]
IsIn(rows, sel) == LET Sel(row) == row.Ticker \in sel IN SelectSeq(rows, Sel)

\* A table of n daily rows whose Index_Close starts at base and is
\* multiplied by rate from each day to the next.
GrowthRows(n, base, rate) ==
  [j \in 1..n |-> [Date |-> j - 1, Index_Close |-> Num(base * rate ^ (j - 1))]]

\* The numbers of trading days of the end-to-end example: from the fewest
\* that give a point on.
ExampleDays == (window_ratio + window_mom - 1) .. (window_ratio + window_mom + 4)

\* The end-to-end example in the Daily view: the benchmark stays at 100 and
\* theme X grows by a constant factor a day.  The factor is 2 (the levels of
\* a growth of 1% a day over 60 days do not fit the integers of the model).
ExampleInit ==
  /\ timeframe = "D"
  /\ tail_length \in Sliders
  /\ \E n \in ExampleDays, base \in {1, 2, 3} :
       /\ benchmark_df = GrowthRows(n, 100, 1)
       /\ df_dict = [name \in {"X"} |-> GrowthRows(n, base, 2)]
  /\ order = <<"X">>
  /\ benchmark = sort_index(benchmark_df)
  /\ rrg_pc = "start"
  /\ NoCallYet
  /\ AppIdle

\* The rest of the script run after the calculation: the quadrants of the
\* latest points, the multiselect and the rows that are drawn.
RenderRRG ==
  /\ rrg_pc = "done"
  /\ last_points' = IF results # <<>> THEN LastPoints(results) ELSE <<>>
  /\ \E sel \in SUBSET DOMAIN df_dict :
       /\ selected' = sel
       /\ rrg_view' = IF sel = {} \/ results = <<>> THEN <<>>
                      ELSE GroupTail(IsIn(results, sel), tail_length)
  /\ rrg_pc' = "shown"
  /\ UNCHANGED <<benchmark, df_dict, timeframe, bench_resampled, asset_resampled,
                 combined, results, benchmark_df, order, tail_length, prev,
                 breadthVars, sideVars>>

\* ============================================= check_and_update_data (app.py)
coreVars == <<breadthVars, rrgVars, appVars>>
notUpd == <<coreVars, btVars, fhVars, batchVars, phaseVars>>

\* update_threshold = time(18, 15), in minutes since midnight
update_threshold == 18 * 60 + 15
\* The times of day a script run can see.
Times == {0, update_threshold - 1, update_threshold, update_threshold + 1}
Days == 0..MaxDay
\* pd.to_datetime of a missing Date cell is NaT, whose date() equals no date.
NaT == -1
\* market_breadth_nifty50.csv: missing; unreadable (read_csv raises);
\* without rows; with rows but no Date column; with a last Date that does
\* not parse; or with a last Date that is a day or NaT.
Files ==
  {[kind |-> k, last_date |-> 0] :
     k \in {"missing", "unreadable", "empty", "nodate", "baddate"}}
    \cup {[kind |-> "dated", last_date |-> d] : d \in Days \cup {NaT}}

\* A dashboard session starts: an empty session_state.
UpdInit ==
  /\ data_updated = FALSE
  /\ launches = 0
  /\ last_outcome = "none"
  /\ csv \in Files
  /\ today \in Days
  /\ now_time \in Times
  /\ cache \in {"warm", "empty"}
  /\ app_pc = "idle"

is_today_data(last_date, day) == last_date = day

\* Variant: new data is expected at any time of day.
can_expect_new_data_Always(t) == TRUE

can_expect_new_data(t) == t >= update_threshold

\* The function reaches line 55: the file exists, is read, has rows and a
\* Date column, and the last Date parses.
ReadsLastDate == csv.kind = "dated"

\* Variant: the except branch leaves the flag as it was.
FlagAfterFailure_Unset(flag) == flag

\* st.session_state['data_updated'] = True in the except branch
FlagAfterFailure(flag) == TRUE

\* One invocation of check_and_update_data(), at the start of a script
\* run.  When it launches the subprocess, the subprocess either returns
\* (having written a file whose last date is not after today) or raises.
check_and_update_data ==
  /\ app_pc \in {"idle", "rerun"}
  /\ IF data_updated
        \/ ~ReadsLastDate
        \/ is_today_data(csv.last_date, today)
        \/ ~can_expect_new_data(now_time)
     THEN /\ last_outcome' = "returned"
          /\ app_pc' = "rest"
          /\ UNCHANGED <<data_updated, launches, csv, cache>>
     ELSE /\ launches < MaxLaunches
          /\ launches' = launches + 1
          /\ \/ /\ last_outcome' = "fetched"
                /\ data_updated' = TRUE
                /\ cache' = "empty"
                /\ \E d \in 0..today : csv' = [kind |-> "dated", last_date |-> d]
                /\ app_pc' = "rerun"
             \/ /\ last_outcome' = "failed"
                /\ data_updated' = FlagAfterFailure(data_updated)
                /\ app_pc' = "rest"
                /\ UNCHANGED <<csv, cache>>
  /\ UNCHANGED <<today, now_time, notUpd>>

\* The rest of the script run: the cached loaders fill the cache.
RestOfScript ==
  /\ app_pc = "rest"
  /\ cache' = "warm"
  /\ app_pc' = "idle"
  /\ UNCHANGED <<data_updated, launches, last_outcome, csv, today, now_time,
                 notUpd>>

\* Between script runs the clock moves on: later the same day, or to the
\* next day.
Tick ==
  /\ app_pc = "idle"
  /\ \/ /\ today' = today
        /\ \E t \in Times : t > now_time /\ now_time' = t
     \/ /\ today < MaxDay
        /\ today' = today + 1
        /\ now_time' \in Times
  /\ UNCHANGED <<data_updated, launches, last_outcome, csv, cache, app_pc,
                 notUpd>>

\* Between script runs the file is replaced from outside the session.
FileChange ==
  /\ app_pc = "idle"
  /\ csv' \in Files \ {csv}
  /\ UNCHANGED <<data_updated, launches, last_outcome, today, now_time, cache,
                 app_pc, notUpd>>

\* The browser is reloaded: a new session with an empty session_state.
NewSession ==
  /\ app_pc = "idle"
  /\ data_updated
  /\ data_updated' = FALSE
  /\ launches' = 0
  /\ last_outcome' = "none"
  /\ UNCHANGED <<csv, today, now_time, cache, app_pc, notUpd>>

\* ================================= backtest_nifty500_strategy (backtest_strategy.py)
notBt == <<coreVars, updVars, fhVars, batchVars, phaseVars>>

\* start_idx = 250
start_idx == 250
\* tickers, in the order of the list; both are columns of prices_df.
tickers == <<"A", "B">>
\* dates[i]: the index of the panel holds the trading days, five a week.
DateAt(i) == i + 2 * (i \div 5)
IndexOfDate(d) == CHOOSE i \in 0..d : DateAt(i) = d
\* Rows of the panel, both tickers at the same level.
Level(v) == [t \in Tickers |-> Num(v)]
\* The rows a day of the loop can have: both tickers below their averages,
\* both above, one above and one below, one without a price and the other
\* below.
DayKinds ==
  {Level(1), Level(3),
   [t \in Tickers |-> IF t = "A" THEN Num(3) ELSE Num(1)],
   [t \in Tickers |-> IF t = "A" THEN NaN ELSE Num(1)]}

\* The fetched panel: empty, too short for the loop, or start_idx - 1 days at
\* level 2 followed by the day before the loop and the days of the loop; a
\* price is missing on the first day of the loop or on none.
BtInit ==
  /\ prices_df \in
       {<<>>, Repeat(Level(2), 3)}
         \cup {Repeat(Level(2), start_idx - 1) \o tail :
                 tail \in {f \in [1..MaxLoopDays + 1 -> DayKinds] :
                             \A k \in DOMAIN f : k # 2 => f[k]["A"] # NaN}}
  /\ bt_sma_200 = <<>>
  /\ breadth_pct = <<>>
  /\ bt_i = 0
  /\ in_trade = FALSE
  /\ entry_date = NoDate
  /\ entry_basket = <<>>
  /\ entry_prices = <<>>
  /\ trades = <<>>
  /\ bt_pc = "start"

\* Lines 25-68: the averages and the breadth of every day.
BacktestPrepare ==
  /\ bt_pc = "start"
  /\ IF prices_df = <<>>
     THEN /\ bt_pc' = "done"
          /\ UNCHANGED <<bt_sma_200, breadth_pct, bt_i>>
     ELSE /\ bt_sma_200' = Sma200(prices_df)
          /\ breadth_pct' = [k \in 1..Len(prices_df) |->
                               percentage(prices_df, bt_sma_200', k)]
          /\ bt_i' = start_idx
          /\ bt_pc' = "loop"
  /\ UNCHANGED <<prices_df, in_trade, entry_date, entry_basket, entry_prices,
                 trades, notBt>>

\* Variant: any day below 20% is a buy signal, in a trade or not.
BuySignal_AnyDay(in, pct, prev_pct) == FLt(pct, Num(20))

\* not in_trade and pct < 20 and prev_pct >= 20
BuySignal(in, pct, prev_pct) ==
  ~in /\ FLt(pct, Num(20)) /\ FLe(Num(20), prev_pct)

\* in_trade and pct > 80 and prev_pct <= 80
SellSignal(in, pct, prev_pct) ==
  in /\ FGt(pct, Num(80)) /\ FLe(prev_pct, Num(80))

\* Variant: the basket holds every ticker that is not above its average,
\* with a price or without.
Basket_NotAbove(df, sma, i) ==
  LET In(t) == ~FGt(df[i + 1][t], sma[t][i + 1])
  IN  SelectSeq(tickers, In)

\* Lines 90-99: the tickers with a price and an average on day i whose
\* price is below the average.
Basket(df, sma, i) ==
  LET In(t) == notna(df[i + 1][t]) /\ notna(sma[t][i + 1])
                 /\ FLt(df[i + 1][t], sma[t][i + 1])
  IN  SelectSeq(tickers, In)

\* prices_df[t].loc[:date].last_valid_index(): the latest row up to i with
\* a price of t, or -1.
LastValidIndex(df, t, i) ==
  LET have == {k \in 0..i : notna(df[k + 1][t])}
  IN  IF have = {} THEN -1 ELSE CHOOSE k \in have : \A j \in have : j <= k

\* Lines 120-135: the price t is sold at on day i.
SellPrice(df, t, i) ==
  IF notna(df[i + 1][t]) THEN df[i + 1][t]
  ELSE IF LastValidIndex(df, t, i) >= 0
       THEN df[LastValidIndex(df, t, i) + 1][t]
       ELSE Num(0)

RECURSIVE SumSeq(_, _)
SumSeq(xs, k) == IF k = 0 THEN Num(0) ELSE FAdd(SumSeq(xs, k - 1), xs[k])

\* Lines 117-142: the mean of (sell - buy) / buy over the basket, 0 for an
\* empty basket.
AvgReturn(df, basket, buy, i) ==
  LET held == LET Pos(t) == FGt(buy[t], Num(0)) IN SelectSeq(basket, Pos)
      rets == [k \in 1..Len(held) |->
                 FDiv(FSub(SellPrice(df, held[k], i), buy[held[k]]), buy[held[k]])]
  IN  IF Len(held) = 0 THEN Num(0)
      ELSE FDiv(SumSeq(rets, Len(rets)), Num(Len(rets)))

\* One pass of the loop body, for day i.
BacktestDay ==
  /\ bt_pc = "loop"
  /\ bt_i < Len(prices_df)
  /\ LET pct      == breadth_pct[bt_i + 1]
         prev_pct == breadth_pct[bt_i]
     IN  IF BuySignal(in_trade, pct, prev_pct)
         THEN /\ in_trade' = TRUE
              /\ entry_date' = DateAt(bt_i)
              /\ entry_basket' = Basket(prices_df, bt_sma_200, bt_i)
              /\ entry_prices' =
                   [t \in {entry_basket'[k] : k \in 1..Len(entry_basket')} |->
                      prices_df[bt_i + 1][t]]
              /\ UNCHANGED trades
         ELSE IF SellSignal(in_trade, pct, prev_pct)
         THEN /\ in_trade' = FALSE
              /\ trades' = Append(trades,
                   [Entry         |-> entry_date,
                    Exit          |-> DateAt(bt_i),
                    BreadthEntry  |-> breadth_pct[IndexOfDate(entry_date) + 1],
                    BreadthExit   |-> pct,
                    Basket        |-> entry_basket,
                    BuyPrices     |-> entry_prices,
                    AvgReturn     |-> AvgReturn(prices_df, entry_basket,
                                                entry_prices, bt_i)])
              /\ UNCHANGED <<entry_date, entry_basket, entry_prices>>
         ELSE UNCHANGED <<in_trade, entry_date, entry_basket, entry_prices, trades>>
  /\ bt_i' = bt_i + 1
  /\ UNCHANGED <<prices_df, bt_sma_200, breadth_pct, bt_pc, notBt>>

\* The loop ends, or does not start: the panel has no row from start_idx on.
BacktestEnd ==
  /\ bt_pc = "loop"
  /\ bt_i >= Len(prices_df)
  /\ bt_pc' = "done"
  /\ UNCHANGED <<prices_df, bt_sma_200, breadth_pct, bt_i, in_trade, entry_date,
                 entry_basket, entry_prices, trades, notBt>>

\* ============================ fetch_historical_data: the stitched histories
notFh == <<coreVars, updVars, btVars, batchVars, phaseVars>>

\* The tickers with a stitched history file, in the order of the two blocks.
StitchedTickers == <<"TMPV.NS", "KWIL.NS">>
StitchDates == 0..MaxStitchDay
\* The sorted sequence of the dates in set.
SortedDates(set) ==
  [k \in 1..Cardinality(set) |->
     CHOOSE d \in set : Cardinality({e \in set : e <= d}) = k]
IndexOf(table) == {table[k].Date : k \in 1..Len(table)}
RowOn(table, d) == table[CHOOSE k \in 1..Len(table) : table[k].Date = d]
\* No stitched history: the file is absent, or reading it raises (it does
\* not parse, or lacks the Date or the Close column).
NoFile(k) == [kind |-> k, rows |-> <<>>]
\* A stitched history file: one Close a date, sorted by Date and without
\* duplicates, as the stitching script writes it.
StitchedSeries(v) ==
  {[k \in 1..(hi - lo + 1) |-> [Date |-> lo + k - 1, Close |-> Num(v)]] :
     lo \in StitchDates, hi \in StitchDates} \ {<<>>}
\* The panel after the download: a range of dates, every price 1 but for
\* one missing price of the first column on date gap (none when gap is off
\* the range); the last column is a ticker without a stitched history.
LivePanel(cols, lo, hi, gap) ==
  [k \in 1..(hi - lo + 1) |->
     [Date  |-> lo + k - 1,
      Close |-> [t \in cols |->
                   IF t = "OTHER.NS" THEN Num(5)
                   ELSE IF lo + k - 1 = gap THEN NaN ELSE Num(1)]]]

FhInit ==
  /\ \E cols \in {{"TMPV.NS", "OTHER.NS"}, {"KWIL.NS", "OTHER.NS"},
                   {"TMPV.NS", "KWIL.NS", "OTHER.NS"}, {"OTHER.NS"}},
        lo \in StitchDates, hi \in StitchDates, late \in BOOLEAN, has \in BOOLEAN :
       /\ lo <= hi
       /\ live_data = LivePanel(cols, lo, hi,
                                IF ~has THEN -1 ELSE IF late THEN hi ELSE lo)
  /\ stitched_files \in
       [{"TMPV.NS", "KWIL.NS"} -> {NoFile("absent"), NoFile("broken")}]
         \cup {[t \in {"TMPV.NS", "KWIL.NS"} |->
                  [kind |-> "series", rows |-> IF t = "TMPV.NS" THEN a ELSE b]] :
                 a \in StitchedSeries(2), b \in StitchedSeries(3)}
         \cup {[t \in {"TMPV.NS", "KWIL.NS"} |->
                  IF t = "TMPV.NS" THEN NoFile(k)
                  ELSE [kind |-> "series", rows |-> b]] :
                 k \in {"absent", "broken"}, b \in StitchedSeries(3)}
  /\ fh_full_data = <<>>
  /\ fh_pc = "start"

\* full_data.reindex(full_data.index.union(stitched_series.index)): the
\* union is sorted; a date the panel lacks gets a row of NaN.
reindex_union(table, series) ==
  LET idx  == SortedDates(IndexOf(table) \cup IndexOf(series))
      cols == IF table = <<>> THEN {} ELSE DOMAIN table[1].Close
  IN  [k \in 1..Len(idx) |->
         IF idx[k] \in IndexOf(table) THEN RowOn(table, idx[k])
         ELSE [Date |-> idx[k], Close |-> [t \in cols |-> NaN]]]

\* Variant: the stitched value is taken wherever there is one.
combine_first_StitchedFirst(live, series, d) ==
  IF d \in IndexOf(series) /\ notna(RowOn(series, d).Close)
  THEN RowOn(series, d).Close
  ELSE live

\* live.combine_first(stitched_series) on date d: the live value unless it
\* is NaN, then the stitched value of that date.
combine_first(live, series, d) ==
  IF notna(live) THEN live
  ELSE IF d \in IndexOf(series) THEN RowOn(series, d).Close
  ELSE NaN

\* One stitching block, lines 171-190 and 193-208, for ticker t.
StitchBlock(table, t, file) ==
  IF table = <<>> \/ t \notin DOMAIN table[1].Close
       \/ file.kind \in {"absent", "broken"}
  THEN table
  ELSE LET wide == reindex_union(table, file.rows)
       IN  [k \in 1..Len(wide) |->
              [wide[k] EXCEPT
                 !.Close[t] = combine_first(@, file.rows, wide[k].Date)]]

\* Lines 170-212: both blocks, then the return.
InjectStitched ==
  /\ fh_pc = "start"
  /\ fh_full_data' =
       StitchBlock(StitchBlock(live_data, StitchedTickers[1],
                               stitched_files[StitchedTickers[1]]),
                   StitchedTickers[2], stitched_files[StitchedTickers[2]])
  /\ fh_pc' = "done"
  /\ UNCHANGED <<live_data, stitched_files, notFh>>

\* ===================================== main (fetch_breadth_data.py): the batch
notBatch == <<coreVars, updVars, btVars, fhVars, phaseVars>>

\* The number of universes of the batch in the model.
MaxTasks == 3
TaskNames == <<"U1", "U2", "U3", "U4">>
\* all_tasks: the names of the universes, in the order they are processed.
all_tasks == SubSeq(TaskNames, 1, MaxTasks)
\* The tickers get_index_tickers can return.
BatchTickers == {"A", "B"}

\* master_data.empty
Empty(df) == df.rows = 0 \/ df.columns = {}

\* d with d[key] = value
DictSet(d, key, value) ==
  [k \in DOMAIN d \cup {key} |-> IF k = key THEN value ELSE d[k]]

BatchInit ==
  /\ task_map = <<>>
  /\ all_tickers = {}
  /\ master_data = [rows |-> 0, columns |-> {}]
  /\ market_details = <<>>
  /\ csv_files = {}
  /\ status_json = <<>>
  /\ raised = {}
  /\ gather_i = 1
  /\ task_i = 1
  /\ exit_code = NoExit
  /\ batch_pc = "gather"

\* One pass of the first loop: a universe enters task_map when
\* get_index_tickers returns tickers for it.
GatherTickers ==
  /\ batch_pc = "gather"
  /\ \E found \in SUBSET BatchTickers :
       LET name == all_tasks[gather_i]
       IN  IF found # {}
           THEN /\ task_map' = DictSet(task_map, name, found)
                /\ all_tickers' = all_tickers \cup found
           ELSE UNCHANGED <<task_map, all_tickers>>
  /\ gather_i' = gather_i + 1
  /\ batch_pc' = IF gather_i = Len(all_tasks) THEN "fetch" ELSE "gather"
  /\ UNCHANGED <<master_data, market_details, csv_files, status_json, raised,
                 task_i, exit_code, notBatch>>

\* The download of the master panel, and sys.exit(1) when it is empty.
FetchMaster ==
  /\ batch_pc = "fetch"
  /\ \E cols \in SUBSET all_tickers, n \in 0..1 :
       master_data' = [rows |-> n, columns |-> cols]
  /\ IF Empty(master_data')
     THEN exit_code' = 1 /\ batch_pc' = "exit"
     ELSE exit_code' = exit_code /\ batch_pc' = "process"
  /\ UNCHANGED <<task_map, all_tickers, market_details, csv_files, status_json,
                 raised, gather_i, task_i, notBatch>>

\* Variant: an exception in one universe ends the loop.
AfterFailure_Stop(i) == Len(all_tasks) + 1

\* The position the loop goes on from after `except Exception`.
AfterFailure(i) == i + 1

\* [t for t in tickers if t in master_data.columns]
available_tickers(name) == task_map[name] \cap master_data.columns

\* One pass of the second loop.
ProcessTask ==
  /\ batch_pc = "process"
  /\ LET name == all_tasks[task_i]
         Goes(next) ==
           /\ task_i' = next
           /\ batch_pc' = IF next > Len(all_tasks) THEN "save" ELSE "process"
     IN  IF name \notin DOMAIN task_map
         THEN Goes(task_i + 1) /\ UNCHANGED <<market_details, csv_files, raised>>
         ELSE IF available_tickers(name) = {}
         THEN Goes(task_i + 1) /\ UNCHANGED <<market_details, csv_files, raised>>
         ELSE \E outcome \in {"saved", "breadth raises", "to_csv raises"} :
                IF outcome = "saved"
                THEN /\ csv_files' = csv_files \cup {name}
                     /\ market_details' =
                          DictSet(market_details, name, available_tickers(name))
                     /\ Goes(task_i + 1)
                     /\ UNCHANGED raised
                ELSE /\ raised' = raised \cup {name}
                     /\ Goes(AfterFailure(task_i))
                     /\ UNCHANGED <<market_details, csv_files>>
  /\ UNCHANGED <<task_map, all_tickers, master_data, status_json, gather_i,
                 exit_code, notBatch>>

\* json.dump(market_details) to market_status_latest.json, then the end
\* of main.
SaveStatus ==
  /\ batch_pc = "save"
  /\ \E dumped \in BOOLEAN :
       status_json' = IF dumped THEN <<market_details>> ELSE <<>>
  /\ exit_code' = 0
  /\ batch_pc' = "done"
  /\ UNCHANGED <<task_map, all_tickers, master_data, market_details, csv_files,
                 raised, gather_i, task_i, notBatch>>

\* ================================== the phase filter of the RRG view (app.py)
notPhase == <<coreVars, updVars, btVars, fhVars, batchVars>>

all_phases == <<"Leading", "Weakening", "Lagging", "Improving">>
Phases == {all_phases[k] : k \in 1..Len(all_phases)}
\* The themes of the multiselect.
rrg_keys == {"X", "Y"}

\* The Quadrant column of last_points_global: empty when nothing was
\* calculated, else a quadrant for every theme.
QuadrantTables ==
  {<<>>} \cup [rrg_keys -> {"Leading", "Lagging", "Unknown"}]

\* hash(tuple(sorted(selected_phases))): a number that differs between
\* any two of the selections.
PhaseHash(phases) ==
  (IF "Leading" \in phases THEN 1 ELSE 0)
  + (IF "Weakening" \in phases THEN 2 ELSE 0)
  + (IF "Lagging" \in phases THEN 4 ELSE 0)
  + (IF "Improving" \in phases THEN 8 ELSE 0)

\* last_points_global[last_points_global['Quadrant'].isin(selected_phases)].index
valid_tickers_for_phases(table, phases) ==
  {t \in DOMAIN table : table[t] \in phases}

\* Variant: the selection is reset whenever it differs from the themes of
\* the selected phases.
PhasesChanged_BySelection(phases, last, current, target) == current # target

\* current_phase_hash != last_phase_hash
PhasesChanged(phases, last, current, target) == PhaseHash(phases) # last

\* forced_count goes no further than this.
MaxForced == 3

\* The first script run of a session that shows the RRG view.
PhaseInit ==
  /\ selected_phases = Phases
  /\ rrg_multiselect = {}
  /\ last_phase_hash = NoHash
  /\ quadrants \in QuadrantTables
  /\ forced_count = 0
  /\ manual_sel = <<>>
  /\ ph_pc = "run"

\* One script run: the reset of the theme selection with its st.rerun(),
\* or the rest of the script.
ScriptRun ==
  /\ ph_pc = "run"
  /\ LET target == valid_tickers_for_phases(quadrants, selected_phases)
     IN  IF /\ DOMAIN quadrants # {}
            /\ PhasesChanged(selected_phases, last_phase_hash, rrg_multiselect,
                             target)
         THEN /\ rrg_multiselect' = target
              /\ last_phase_hash' = PhaseHash(selected_phases)
              /\ forced_count' = IF forced_count < MaxForced
                                 THEN forced_count + 1 ELSE forced_count
              /\ ph_pc' = "run"
         ELSE /\ ph_pc' = "idle"
              /\ UNCHANGED <<rrg_multiselect, last_phase_hash, forced_count>>
  /\ UNCHANGED <<selected_phases, quadrants, manual_sel, notPhase>>

\* The user changes the "Select Phases" multiselect.
ChangePhases ==
  /\ ph_pc = "idle"
  /\ \E phases \in SUBSET Phases :
       /\ phases # selected_phases
       /\ selected_phases' = phases
  /\ forced_count' = 0
  /\ manual_sel' = <<>>
  /\ ph_pc' = "run"
  /\ UNCHANGED <<rrg_multiselect, last_phase_hash, quadrants, notPhase>>

\* "Select All" or "Deselect All" of the phases, with its st.rerun().
PhaseButton ==
  /\ ph_pc = "idle"
  /\ \E phases \in {Phases, {}} :
       /\ selected_phases' = phases
       /\ forced_count' = IF phases = selected_phases THEN forced_count ELSE 0
       /\ manual_sel' = IF phases = selected_phases THEN manual_sel ELSE <<>>
  /\ ph_pc' = "run"
  /\ UNCHANGED <<rrg_multiselect, last_phase_hash, quadrants, notPhase>>

\* What is remembered of a theme selection the user makes.
Manual(sel) ==
  IF PhaseHash(selected_phases) = last_phase_hash THEN <<sel>> ELSE <<>>

\* The user changes the "Select Themes to Display" multiselect.
ChangeThemes ==
  /\ ph_pc = "idle"
  /\ \E sel \in SUBSET rrg_keys :
       /\ sel # rrg_multiselect
       /\ rrg_multiselect' = sel
       /\ manual_sel' = Manual(sel)
  /\ ph_pc' = "run"
  /\ UNCHANGED <<selected_phases, last_phase_hash, quadrants, forced_count,
                 notPhase>>

\* "Select All Themes" or "Deselect All Themes", with its st.rerun().
ThemeButton ==
  /\ ph_pc = "idle"
  /\ \E sel \in {rrg_keys, {}} :
       /\ rrg_multiselect' = sel
       /\ manual_sel' = Manual(sel)
  /\ ph_pc' = "run"
  /\ UNCHANGED <<selected_phases, last_phase_hash, quadrants, forced_count,
                 notPhase>>

\* Another timeframe, or new files: the quadrants of the next run differ.
ChangeData ==
  /\ ph_pc = "idle"
  /\ quadrants' \in QuadrantTables
  /\ ph_pc' = "run"
  /\ UNCHANGED <<selected_phases, rrg_multiselect, last_phase_hash,
                 forced_count, manual_sel, notPhase>>

\* ------------------------------------------------------- specifications
\* A session in the RRG view.  A script run that is due takes place.
InitPhase ==
  /\ PhaseInit /\ BreadthIdle /\ RRGIdle /\ AppIdle /\ UpdIdle /\ BtIdle
  /\ FhIdle /\ BatchIdle

NextPhase ==
  ScriptRun \/ ChangePhases \/ PhaseButton \/ ChangeThemes \/ ThemeButton
  \/ ChangeData

SpecPhase == InitPhase /\ [][NextPhase]_vars /\ WF_vars(ScriptRun)

\* One batch run of main.
InitBatch ==
  /\ BatchInit /\ BreadthIdle /\ RRGIdle /\ AppIdle /\ UpdIdle /\ BtIdle
  /\ FhIdle /\ PhaseIdle

NextBatch == GatherTickers \/ FetchMaster \/ ProcessTask \/ SaveStatus

SpecBatch == InitBatch /\ [][NextBatch]_vars

\* fetch_historical_data from the combined download on.
InitStitch ==
  /\ FhInit /\ BreadthIdle /\ RRGIdle /\ AppIdle /\ UpdIdle /\ BtIdle
  /\ BatchIdle /\ PhaseIdle

NextStitch == InjectStitched

SpecStitch == InitStitch /\ [][NextStitch]_vars

\* One run of the backtest.
InitBacktest ==
  /\ BtInit /\ BreadthIdle /\ RRGIdle /\ AppIdle /\ UpdIdle /\ FhIdle
  /\ BatchIdle /\ PhaseIdle

NextBacktest == BacktestPrepare \/ BacktestDay \/ BacktestEnd

SpecBacktest == InitBacktest /\ [][NextBacktest]_vars

\* Dashboard sessions: script runs with the auto-update check.
InitUpdate ==
  /\ UpdInit /\ BreadthIdle /\ RRGIdle /\ AppIdle /\ BtIdle /\ FhIdle
  /\ BatchIdle /\ PhaseIdle

NextUpdate ==
  check_and_update_data \/ RestOfScript \/ Tick \/ FileChange \/ NewSession

SpecUpdate == InitUpdate /\ [][NextUpdate]_vars

\* calculate_breadth on its own; no RRGCalculator exists.
Init == BreadthInit /\ RRGIdle /\ AppIdle /\ SideIdle

Next == CalculateBreadth

Spec == Init /\ [][Next]_vars

\* An RRGCalculator and one call of calculate_rrg_metrics.
InitRRG == RRGInit /\ BreadthIdle /\ AppIdle /\ SideIdle

NextRRG == CalculateRRG

SpecRRG == InitRRG /\ [][NextRRG]_vars

\* An RRGCalculator is constructed and called any number of times.
InitCalls == CallsInit /\ BreadthIdle /\ SideIdle

NextCalls == Construct \/ BeginCall \/ CalculateRRG

SpecCalls == InitCalls /\ [][NextCalls]_vars

\* One run of the RRG view on the tables of the end-to-end example.
InitExample == ExampleInit /\ BreadthIdle /\ SideIdle

NextExample == CalculateRRG \/ RenderRRG

SpecExample == InitExample /\ [][NextExample]_vars

\* One run of the RRG view of app.py.
InitApp == AppInit /\ BreadthIdle /\ SideIdle

NextApp == CalculateRRG \/ RenderRRG

SpecApp == InitApp /\ [][NextApp]_vars

\* ================================================================ claims
Done == pc = "done"
Price(i, t) == full_data[i][t]
Present(i) == {t \in Tickers : notna(Price(i, t))}
AllMissing == \A i \in 1..Len(full_data) : Present(i) = {}
HasGap == \E i \in 1..Len(full_data) : Present(i) # Tickers

\* C1: on every row Total = Above + Below + New_Listing, New_Listing being
\* the number of tickers with a price but no defined moving average.
C1_TotalIsSum ==
  Done =>
    /\ Len(breadth_df) = Len(full_data)
    /\ \A i \in 1..Len(breadth_df) :
         breadth_df[i].Total =
           breadth_df[i].Above + breadth_df[i].Below
           + Cardinality({t \in Present(i) : isna(sma_200[t][i])})

\* A panel with gaps and a row that has a classified ticker and a new listing.
C1_Witness ==
  /\ Done
  /\ HasGap
  /\ \E i \in 1..Len(breadth_df) :
       /\ breadth_df[i].Above + breadth_df[i].Below >= 1
       /\ Cardinality({t \in Present(i) : isna(sma_200[t][i])}) >= 1

\* C2: Percentage = 100 * Above / (Above + Below) when Above + Below > 0,
\* 0 when no ticker has both a price and a defined average; so it lies in
\* [0, 100].
C2_Percentage ==
  Done =>
    \A i \in 1..Len(breadth_df) :
      LET a == breadth_df[i].Above
          b == breadth_df[i].Below
          p == breadth_df[i].Percentage
      IN  /\ a + b > 0 => p = Frac(100 * a, a + b)
          /\ {t \in Present(i) : notna(sma_200[t][i])} = {} => p = Num(0)
          /\ FLe(Num(0), p) /\ FLe(p, Num(100))

\* A 50% row, and a row where tickers trade but none is classified yet.
C2_Witness ==
  /\ Done
  /\ \E i \in 1..Len(breadth_df) :
       breadth_df[i].Above = 1 /\ breadth_df[i].Below = 1
  /\ \E i \in 1..Len(breadth_df) :
       /\ breadth_df[i].Total > 0
       /\ breadth_df[i].Above + breadth_df[i].Below = 0

\* C3: a ticker with a price is counted in exactly one of Above (average
\* defined, price > average), Below (average defined, price <= average),
\* New Listing (average undefined); a ticker without a price is counted in
\* none, whether or not its average is defined.
C3_Categories ==
  Done =>
    \A i \in 1..Len(breadth_df) :
      LET above == {t \in Present(i) :
                      notna(sma_200[t][i]) /\ FGt(Price(i, t), sma_200[t][i])}
          below == {t \in Present(i) :
                      notna(sma_200[t][i]) /\ FLe(Price(i, t), sma_200[t][i])}
          new   == {t \in Present(i) : isna(sma_200[t][i])}
      IN  /\ breadth_df[i].Above = Cardinality(above)
          /\ breadth_df[i].Below = Cardinality(below)
          /\ new_stock_count[i] = Cardinality(new)
          /\ breadth_df[i].Total = Cardinality(Present(i))
          /\ above \cup below \cup new = Present(i)
          /\ above \cap below = {} /\ above \cap new = {} /\ below \cap new = {}

\* A date on which a ticker has no price although its average is defined,
\* while the other ticker is classified.
C3_Witness ==
  /\ Done
  /\ \E i \in 1..Len(breadth_df) : \E t \in Tickers :
       /\ isna(Price(i, t))
       /\ notna(sma_200[t][i])
       /\ breadth_df[i].Above + breadth_df[i].Below = 1

\* The rows of the trailing window of row i, and those with a price for t.
Window(i) == {j \in 1..i : j > i - W}
Observed(t, i) == {j \in Window(i) : notna(Price(j, t))}
\* The sum of the observed prices of a window, level by level.
ObservedSum(t, i) ==
  LET levels == {Price(j, t) : j \in Observed(t, i)}
      weight == [v \in levels |->
                   FMul(v, Num(Cardinality({j \in Observed(t, i) : Price(j, t) = v})))]
  IN  SumSet(levels, weight)

\* C4: the moving average is defined exactly when at least M of the
\* trailing W rows hold a price, and is then the mean of those prices.
C4_MovingAverage ==
  Done =>
    \A t \in Tickers : \A i \in 1..Len(full_data) :
      LET n == Cardinality(Observed(t, i))
      IN  /\ notna(sma_200[t][i]) <=> n >= M
          /\ notna(sma_200[t][i]) => sma_200[t][i] = FDiv(ObservedSum(t, i), Num(n))

\* A row past W whose average is defined over a window with a gap, and a
\* row whose average became undefined again when old prices left the window.
C4_Witness ==
  /\ Done
  /\ \E t \in Tickers : \E i \in 1..Len(full_data) :
       /\ i > W
       /\ notna(sma_200[t][i])
       /\ Observed(t, i) # Window(i)
  /\ \E t \in Tickers : \E i \in 2..Len(full_data) :
       /\ i > W
       /\ isna(sma_200[t][i])
       /\ notna(sma_200[t][i - 1])

\* C5: for a non-empty panel Index_Close is 100 on the first row and
\* positive on every row.
C5_IndexBase ==
  (Done /\ Len(full_data) > 0) =>
    /\ breadth_df[1].Index_Close = Num(100)
    /\ \A i \in 1..Len(breadth_df) : FGt(breadth_df[i].Index_Close, Num(0))

\* An index that rose above 100 and later fell.
C5_Witness ==
  /\ Done
  /\ \E i \in 1..Len(breadth_df) : \E j \in 1..Len(breadth_df) :
       /\ i < j
       /\ FGt(breadth_df[i].Index_Close, Num(100))
       /\ FLt(breadth_df[j].Index_Close, breadth_df[i].Index_Close)

\* The tickers with a return on row i, and the mean of their returns.
WithReturn(i) == {t \in Tickers : notna(daily_returns[t][i])}
MeanReturn(i) ==
  IF WithReturn(i) = {} THEN Num(0)
  ELSE FDiv(SumSet(WithReturn(i), [t \in Tickers |-> daily_returns[t][i]]),
            Num(Cardinality(WithReturn(i))))

\* C6: Index_Close[t] = Index_Close[t-1] * (1 + r[t]), r[t] the mean return
\* of the tickers that have a return on t, or 0 when none has.
C6_IndexRecurrence ==
  Done =>
    \A i \in 2..Len(breadth_df) :
      breadth_df[i].Index_Close =
        FMul(breadth_df[i - 1].Index_Close, FAdd(Num(1), MeanReturn(i)))

\* A day on which only one ticker has a return, and it is not zero.
C6_Witness ==
  /\ Done
  /\ \E i \in 2..Len(breadth_df) :
       /\ Cardinality(WithReturn(i)) = 1
       /\ MeanReturn(i) # Num(0)
  /\ \E i \in 2..Len(breadth_df) :
       /\ WithReturn(i) = Tickers
       /\ MeanReturn(i) # Num(0)

\* C7: a ticker's return on row i is price[i]/price[i-1] - 1 and is undefined
\* on the first row and whenever price[i] or price[i-1] is missing.
C7_NoReturnAcrossGap ==
  Done =>
    \A t \in Tickers : \A i \in 1..Len(full_data) :
      daily_returns[t][i] =
        IF i > 1 /\ notna(Price(i, t)) /\ notna(Price(i - 1, t))
        THEN FSub(FDiv(Price(i, t), Price(i - 1, t)), Num(1))
        ELSE NaN

\* C8 as stated: an all-missing panel yields a result without rows.
C8_AllMissingIsEmpty ==
  (Done /\ AllMissing) => Len(breadth_df) = 0

\* C8 amended: an all-missing panel yields one row per date, each with
\* Above = Below = Total = 0, Percentage 0 and Index_Close 100.
C8_AllMissingRows ==
  (Done /\ AllMissing) =>
    /\ Len(breadth_df) = Len(full_data)
    /\ \A i \in 1..Len(breadth_df) :
         breadth_df[i] = [Above |-> 0, Below |-> 0, Total |-> 0,
                          Percentage |-> Num(0), Index_Close |-> Num(100)]

C8_Witness == Done /\ AllMissing /\ Len(full_data) >= W

\* ------------------------------------------------------- RRG claims
RRGDone == rrg_pc = "done"
RuleOf(tf) == IF tf = "W" THEN "W-FRI" ELSE "M"
\* The rows of df that hold a value.
Obs(df) == {i \in 1..Len(df) : notna(df[i].Index_Close)}
\* The rows of df that hold a value and fall into the period ending at p.
ObsIn(df, p) == {i \in Obs(df) : PeriodEnd(RuleOf(timeframe), df[i].Date) = p}
\* out is what the claim says _resample returns for the table src.
ResampledAsClaimed(src, out) ==
  IF timeframe = "D" THEN out = src
  ELSE /\ \A k \in 1..Len(out) - 1 : out[k].Date < out[k + 1].Date
       /\ DatesOf(out) = {PeriodEnd(RuleOf(timeframe), src[i].Date) : i \in Obs(src)}
       /\ \A k \in 1..Len(out) :
            /\ ObsIn(src, out[k].Date) # {}
            /\ out[k].Index_Close = src[MaxOf(ObsIn(src, out[k].Date))].Index_Close

\* C9: _resample returns a Daily table unchanged; for Weekly and Monthly it
\* returns exactly one row per period (week ending Friday, calendar month)
\* in which the table has at least one value, labelled with the end of the
\* period and carrying the last value of the period, and no row for a
\* period without a value.
C9_Resample ==
  RRGDone =>
    /\ ResampledAsClaimed(benchmark, bench_resampled)
    /\ \A name \in DOMAIN df_dict :
         ResampledAsClaimed(sort_index(df_dict[name]), asset_resampled[name])

\* A Weekly or Monthly run on a candidate with a period that holds two
\* different values and with a period, between its first and its last,
\* that holds none.
C9_Witness ==
  /\ RRGDone
  /\ timeframe # "D"
  /\ LET src == df_dict["X"]
         out == asset_resampled["X"]
     IN  /\ \E i, j \in Obs(src) :
              /\ i < j
              /\ src[i].Index_Close # src[j].Index_Close
              /\ j \in ObsIn(src, PeriodEnd(RuleOf(timeframe), src[i].Date))
         /\ \E k \in 1..Len(out) - 1 :
              NextPeriodEnd(RuleOf(timeframe), out[k].Date) < out[k + 1].Date

CommonDates(name) == DatesOf(asset_resampled[name]) \cap DatesOf(bench_resampled)
\* The rows of df whose date is in the set dates.
Restrict(df, dates) ==
  LET Keep(row) == row.Date \in dates IN SelectSeq(df, Keep)
RowsOf(name) ==
  LET Mine(row) == row.Ticker = name IN SelectSeq(results, Mine)

\* C10: every point emitted for a ticker has a date that both the
\* resampled candidate and the resampled benchmark have; the table the
\* metrics are computed on has exactly these common dates, RS at each of
\* them is 100 * candidate / benchmark of that date, and the points are
\* those computed from the two series cut down to their common dates.
C10_InnerJoin ==
  RRGDone =>
    \A name \in DOMAIN df_dict :
      LET a      == asset_resampled[name]
          common == CommonDates(name)
      IN  /\ \A k \in 1..Len(results) :
               results[k].Ticker = name => results[k].Date \in common
          /\ Len(combined[name]) = Cardinality(common)
          /\ \A k \in 1..Len(combined[name]) :
               LET row == combined[name][k]
               IN  /\ row.Date \in common
                   /\ row.RS = Scale100(FDiv(ValueAt(a, row.Date),
                                             ValueAt(bench_resampled, row.Date)))
          /\ RowsOf(name) =
               PointsOf(name, Metrics(Join(Restrict(a, common),
                                           Restrict(bench_resampled, common))))

\* A run that emits a point for a candidate although the candidate has a
\* date, between two common dates, that the benchmark lacks, and the
\* benchmark has a date that the candidate lacks.
C10_Witness ==
  /\ RRGDone
  /\ RowsOf("X") # <<>>
  /\ \E d \in DatesOf(asset_resampled["X"]) \ DatesOf(bench_resampled) :
       \E lo, hi \in CommonDates("X") : lo < d /\ d < hi
  /\ DatesOf(bench_resampled) \ DatesOf(asset_resampled["X"]) # {}

\* C11: a candidate whose table is empty, or whose resampled dates share
\* no date with the resampled benchmark, adds no row to the result, and
\* every other candidate of the call adds the rows computed for it.
C11_SkippedTickers ==
  RRGDone =>
    \A name \in DOMAIN df_dict :
      IF Len(df_dict[name]) = 0 \/ CommonDates(name) = {}
      THEN RowsOf(name) = <<>>
      ELSE RowsOf(name) = PointsOf(name, combined[name])

\* A call whose first candidate has rows but no date in common with the
\* benchmark, and whose second candidate gets points.
C11_Witness ==
  /\ RRGDone
  /\ Len(order) = 2
  /\ Len(df_dict[order[1]]) > 0
  /\ CommonDates(order[1]) = {}
  /\ RowsOf(order[2]) # <<>>

\* The number of aligned periods the two smoothing windows need.
BothWindows == window_ratio + window_mom - 1

\* C12: when the resampled benchmark has fewer periods than the two
\* smoothing windows need, the call ends with an empty result, however
\* long the candidates' tables are.
C12_ShortBenchmark ==
  (RRGDone /\ Len(bench_resampled) < BothWindows) => results = <<>>

\* A call with a benchmark too short for the windows and a candidate long
\* enough for them.
C12_Witness ==
  /\ RRGDone
  /\ Len(bench_resampled) < BothWindows
  /\ \E name \in DOMAIN df_dict : Len(asset_resampled[name]) >= BothWindows
  /\ results = <<>>

\* The row of a ticker's joined table at the date of an emitted point.
RowAt(table, d) == CHOOSE k \in 1..Len(table) : table[k].Date = d
Times100(x) == FMul(<<100, 1>>, x)
\* The sum of f[lo], ..., f[hi].
RECURSIVE SumOf(_, _, _)
SumOf(f, lo, hi) == IF lo > hi THEN Num(0) ELSE FAdd(SumOf(f, lo, hi - 1), f[hi])
\* The mean of the n values of f that end at position k.
MeanEndingAt(f, k, n) == FDiv(SumOf(f, k - n + 1, k), Num(n))
\* RS, RS_Ratio and RS_Momentum at position k as the claim defines them.
ClaimedRS(table) ==
  [k \in 1..Len(table) |-> Times100(FDiv(table[k].Asset, table[k].Benchmark))] \o <<>>
ClaimedRatio(rs, k) == Times100(FDiv(rs[k], MeanEndingAt(rs, k, 14)))
ClaimedMomentum(rs, k) ==
  LET ratio == [i \in 1..Len(rs) |->
                  IF i >= 14 /\ i > k - 9 /\ i <= k THEN ClaimedRatio(rs, i) ELSE NaN] \o <<>>
  IN  Times100(FDiv(ratio[k], MeanEndingAt(ratio, k, 9)))

\* C13: every emitted point, at position k of the ticker's aligned table,
\* has RS = 100 * candidate / benchmark, RS_Ratio = 100 * RS / (mean of RS
\* over the 14 positions ending at k) and RS_Momentum = 100 * RS_Ratio /
\* (mean of RS_Ratio over the 9 positions ending at k).
C13_Formulas ==
  RRGDone =>
    \A p \in 1..Len(results) :
      LET table == combined[results[p].Ticker]
          k     == RowAt(table, results[p].Date)
          rs    == ClaimedRS(table)
      IN  /\ k >= 22
          /\ table[k].RS = rs[k]
          /\ results[p].RS_Ratio = ClaimedRatio(rs, k)
          /\ results[p].RS_Momentum = ClaimedMomentum(rs, k)

\* An emitted point whose windows hold different values: neither
\* coordinate is 100.
C13_Witness ==
  /\ RRGDone
  /\ \E p \in 1..Len(results) :
       /\ results[p].RS_Ratio # Num(100)
       /\ results[p].RS_Momentum # Num(100)

\* In every ticker's aligned table RS_Ratio is undefined on the first r
\* positions and RS_Momentum on the first m, and no emitted point lies on
\* one of the first m positions.
UndefinedAtStart(r, m) ==
  \A name \in DOMAIN df_dict :
    LET table == combined[name]
    IN  /\ \A k \in 1..Len(table) :
             /\ k <= r => isna(table[k].RS_Ratio)
             /\ k <= m => isna(table[k].RS_Momentum)
        /\ \A p \in 1..Len(results) :
             results[p].Ticker = name => RowAt(table, results[p].Date) > m

\* C14 as stated: RS_Ratio is undefined on the first 14 aligned periods,
\* RS_Momentum on the first 22, and no point is emitted for any of the
\* first 22 aligned periods.
C14_First22Undefined == RRGDone => UndefinedAtStart(14, 22)

\* The aligned table of a ticker has values on its first 22 positions.
StartsComplete(table) ==
  /\ Len(table) >= 22
  /\ \A k \in 1..22 : notna(table[k].Asset) /\ notna(table[k].Benchmark)

\* C14 amended: RS_Ratio is undefined on the first 13 aligned periods and
\* RS_Momentum on the first 21, no point is emitted for any of the first
\* 21 aligned periods, and when the first 22 periods all have values and
\* at most 30 periods have both coordinates, the first emitted point is the
\* 22nd period, the first at which both windows are full.
C14_First21Undefined ==
  RRGDone =>
    /\ UndefinedAtStart(13, 21)
    /\ \A name \in DOMAIN df_dict :
         (StartsComplete(combined[name])
            /\ Len(SelectSeq(combined[name], NoNaN)) <= 30)
         => /\ RowsOf(name) # <<>>
            /\ RowsOf(name)[1].Date = combined[name][22].Date

\* A call in which a ticker with more than 22 complete aligned periods gets
\* its first point at the 22nd.
C14_Witness ==
  /\ RRGDone
  /\ \E name \in DOMAIN df_dict :
       /\ StartsComplete(combined[name])
       /\ Len(combined[name]) > 22
       /\ Len(RowsOf(name)) > 1
       /\ RowsOf(name)[1].Date = combined[name][22].Date

\* ------------------------------------------------------- view claims
Called == rrg_pc \in {"done", "shown"}
Shown == rrg_pc = "shown"
Smaller(a, b) == IF a < b THEN a ELSE b
\* The last n elements of seq, all of them when it has fewer.
LastN(seq, n) == SubSeq(seq, Len(seq) - Smaller(n, Len(seq)) + 1, Len(seq))
\* The rows of a ticker's aligned table that have both coordinates.
DefinedPoints(name) == SelectSeq(combined[name], NoNaN)
ViewOf(name) == LET Mine(row) == row.Ticker = name IN SelectSeq(rrg_view, Mine)

SignAt100(x) == IF FGt(x, Num(100)) THEN 1 ELSE IF FLt(x, Num(100)) THEN -1 ELSE 0
\* The label the claim gives to the signs of RS_Ratio - 100 and
\* RS_Momentum - 100.
LabelOfSigns(sr, sm) ==
  IF sr = 0 \/ sm = 0 THEN "Unknown"
  ELSE IF sr = 1 THEN (IF sm = 1 THEN "Leading" ELSE "Weakening")
  ELSE (IF sm = 1 THEN "Improving" ELSE "Lagging")
SignsOf(row) == <<SignAt100(row.RS_Ratio), SignAt100(row.RS_Momentum)>>

\* C16: the tickers with a quadrant are those with points; the quadrant of
\* each is the label of the signs of RS_Ratio - 100 and RS_Momentum - 100
\* of its latest retained point: (+,+) Leading, (+,-) Weakening, (-,-)
\* Lagging, (-,+) Improving, and Unknown when either is exactly 100.
C16_Quadrant ==
  Shown =>
    /\ DOMAIN last_points = {name \in DOMAIN df_dict : RowsOf(name) # <<>>}
    /\ \A name \in DOMAIN last_points :
         LET rows   == RowsOf(name)
             latest == rows[Len(rows)]
         IN  /\ last_points[name].RS_Ratio = latest.RS_Ratio
             /\ last_points[name].RS_Momentum = latest.RS_Momentum
             /\ last_points[name].Quadrant =
                  LabelOfSigns(SignsOf(latest)[1], SignsOf(latest)[2])

\* A view with a ticker labelled Unknown because one coordinate of its
\* latest point is exactly 100 while the other is not, and whose earlier
\* points have other signs.
C16_Witness ==
  /\ Shown
  /\ \E name \in DOMAIN last_points :
       LET rows == RowsOf(name)
       IN  /\ last_points[name].Quadrant = "Unknown"
           /\ SignsOf(rows[Len(rows)]) \in {<<0, 1>>, <<0, -1>>, <<1, 0>>, <<-1, 0>>}
           /\ \E i \in 1..Len(rows) - 1 : SignsOf(rows[i]) # SignsOf(rows[Len(rows)])

\* C17: a call with an invalid configuration, a cadence that is none of
\* Daily, Weekly, Monthly or a tail length that is not positive, does not
\* return a result: every call that returned had a valid configuration.
C17_InvalidConfigFails ==
  RRGDone => (timeframe \in {"D", "W", "M"} /\ tail_length > 0)

\* C18: resampling a Weekly table to Weekly again, or a Monthly table to
\* Monthly again, gives the same table: same dates, same values.
C18_Idempotent ==
  (RRGDone /\ timeframe # "D") =>
    /\ _resample(bench_resampled, timeframe) = bench_resampled
    /\ \A name \in DOMAIN df_dict :
         _resample(asset_resampled[name], timeframe) = asset_resampled[name]

\* A Weekly or Monthly call whose resampling changed the candidate: fewer
\* rows than the table had, and more than one.
C18_Witness ==
  /\ RRGDone
  /\ timeframe # "D"
  /\ Len(asset_resampled["X"]) > 1
  /\ Len(asset_resampled["X"]) < Len(df_dict["X"])
  /\ Len(bench_resampled) > 1

\* A call has returned and the call before it, on the same calculator and
\* with the same table for X, had the same cadence.
SameCallForX ==
  /\ RRGDone
  /\ Len(prev) = 1
  /\ prev[1].timeframe = timeframe

\* C19: the rows emitted for ticker X depend only on X's table, the
\* benchmark and the cadence: two calls with the same three give X the same
\* rows, whatever other ticker was in df_dict, before or after X, empty or
\* not, in either call.
C19_PerTicker ==
  SameCallForX => RowsOf("X") = prev[1].rows

\* Two calls of the same cadence that gave X points, the later one with
\* another ticker, itself with points, ahead of X and the earlier one with
\* X alone or first.
C19_Witness ==
  /\ SameCallForX
  /\ order = <<"Y", "X">>
  /\ prev[1].order # order
  /\ RowsOf("Y") # <<>>
  /\ RowsOf("X") # <<>>

\* What the call returns on a calculator constructed just now from the
\* caller's benchmark table.
FreshCall ==
  LET fresh == sort_index(benchmark_df)
      bench == _resample(fresh, timeframe)
      tables == [name \in DOMAIN df_dict |->
                   Metrics(Join(_resample(sort_index(df_dict[name]), timeframe),
                                bench))]
  IN  ResultsFrom(order, df_dict, tables, 1)

\* C20: no call changes the calculator's stored benchmark, the benchmark
\* table given to the constructor or a table of df_dict, the constructor
\* does not change its argument either, and so every call, after any calls
\* of any cadences and ticker sets, returns what it returns on a freshly
\* constructed calculator.
C20_NoSharedState ==
  /\ [](RRGDone => results = FreshCall)
  /\ [][(rrg_pc = "start") =>
          (benchmark' = benchmark /\ benchmark_df' = benchmark_df
             /\ df_dict' = df_dict)]_vars
  /\ [][(rrg_pc = "new") => (benchmark_df' = benchmark_df)]_vars

\* A Daily call that emits points, made after a Weekly or Monthly call with
\* other tickers, on a calculator whose constructor had to sort the
\* benchmark.
C20_Witness ==
  /\ RRGDone
  /\ Len(prev) = 1
  /\ prev[1].timeframe \in {"W", "M"}
  /\ prev[1].order # order
  /\ timeframe = "D"
  /\ benchmark # benchmark_df
  /\ results # <<>>

\* The example's table for X, with all its columns, and the points emitted.
ExampleTable == combined["X"]
ExampleShown == Shown /\ results # <<>>
RSRises ==
  \A k \in 1..Len(ExampleTable) - 1 :
    FLt(ExampleTable[k].RS, ExampleTable[k + 1].RS)
RatioAbove100 ==
  \A k \in 1..Len(ExampleTable) :
    notna(ExampleTable[k].RS_Ratio) => FGt(ExampleTable[k].RS_Ratio, Num(100))

RoundedQuadrants(row) ==
  {get_quadrant([row EXCEPT !.RS_Momentum = FAdd(@, Frac(e, 1000000))]) :
     e \in {-1, 0, 1}}

Invocation == app_pc \in {"idle", "rerun"} /\ last_outcome' # "none" /\ app_pc' # "idle"

\* C24: an invocation launches the subprocess only when the file exists
\* with a Date column and a row, its last date is not today and the time
\* is 18:15 or later; in any other state it launches nothing and leaves
\* data_updated and the cache as they are.
C24_LaunchGuard ==
  [][Invocation =>
       IF csv.kind = "dated" /\ csv.last_date # today /\ now_time >= 18 * 60 + 15
       THEN TRUE
       ELSE /\ launches' = launches
            /\ data_updated' = data_updated
            /\ cache' = cache]_vars

\* The subprocess was launched at 18:15 sharp and returned.
C24_Witness ==
  /\ last_outcome = "fetched"
  /\ launches = 1
  /\ now_time = 18 * 60 + 15
  /\ cache = "empty"

\* The 0-based row number of the day with date d, and the breadth of a day.
RowOf(d) == CHOOSE i \in 0..Len(prices_df) - 1 : DateAt(i) = d
BreadthOn(d) == breadth_pct[RowOf(d) + 1]
\* The tickers that have a price below their moving average on day d.
BelowAverageOn(d) ==
  {t \in Tickers :
     /\ notna(prices_df[RowOf(d) + 1][t])
     /\ notna(bt_sma_200[t][RowOf(d) + 1])
     /\ FLt(prices_df[RowOf(d) + 1][t], bt_sma_200[t][RowOf(d) + 1])}
SetOf(seq) == {seq[k] : k \in 1..Len(seq)}

\* C25: every recorded trade has its entry before its exit, a breadth
\* below 20 on the entry day and above 80 on the exit day; the trades are
\* in chronological order, each exit before the next entry, and an open
\* trade entered after the last exit; the basket and the buy prices used at
\* the exit are those of the trade's entry day.
C25_Alternation ==
  /\ \A k \in 1..Len(trades) :
       LET tr == trades[k]
       IN  /\ tr.Entry < tr.Exit
           /\ FLt(BreadthOn(tr.Entry), Num(20))
           /\ FGt(BreadthOn(tr.Exit), Num(80))
           /\ tr.BreadthEntry = BreadthOn(tr.Entry)
           /\ tr.BreadthExit = BreadthOn(tr.Exit)
           /\ SetOf(tr.Basket) = BelowAverageOn(tr.Entry)
           /\ DOMAIN tr.BuyPrices = BelowAverageOn(tr.Entry)
           /\ \A t \in DOMAIN tr.BuyPrices :
                tr.BuyPrices[t] = prices_df[RowOf(tr.Entry) + 1][t]
           /\ k < Len(trades) => tr.Exit < trades[k + 1].Entry
  /\ (in_trade /\ trades # <<>>) => trades[Len(trades)].Exit < entry_date
  /\ in_trade =>
       /\ FLt(BreadthOn(entry_date), Num(20))
       /\ SetOf(entry_basket) = BelowAverageOn(entry_date)

\* Two recorded trades, the first with a basket that lacks a ticker which
\* had no price on the entry day.
C25_Witness ==
  /\ bt_pc = "done"
  /\ Len(trades) = 2
  /\ Len(trades[1].Basket) = 1
  /\ Len(trades[2].Basket) = 2

\* The loop has processed at least one day; the last one is row bt_i - 1.
DayProcessed == bt_pc \in {"loop", "done"} /\ bt_i > 250
LastBreadth == breadth_pct[bt_i]
\* The breadth was below 20 on the day before the loop started and on every
\* day processed so far.
BelowSinceStart == \A k \in 250..bt_i : FLt(breadth_pct[k], Num(20))

Listed(list) == {list[k] : k \in 1..Len(list)}
NoRepeats(list) == Cardinality(Listed(list)) = Len(list)

\* C27: the three lists are pairwise disjoint, hold together exactly the
\* tickers with a price on the last date, and are as long as the last
\* row's Above, Below and Total - Above - Below; for an empty panel all
\* three are empty.
C27_Lists ==
  Done =>
    IF full_data = <<>>
    THEN above_list = <<>> /\ below_list = <<>> /\ new_stock_list = <<>>
    ELSE LET last == breadth_df[Len(breadth_df)]
         IN  /\ Listed(above_list) \cap Listed(below_list) = {}
             /\ Listed(above_list) \cap Listed(new_stock_list) = {}
             /\ Listed(below_list) \cap Listed(new_stock_list) = {}
             /\ NoRepeats(above_list) /\ NoRepeats(below_list)
             /\ NoRepeats(new_stock_list)
             /\ Listed(above_list) \cup Listed(below_list) \cup Listed(new_stock_list)
                  = {t \in Tickers : notna(full_data[Len(full_data)][t])}
             /\ Len(above_list) = last.Above
             /\ Len(below_list) = last.Below
             /\ Len(new_stock_list) = last.Total - last.Above - last.Below

\* A panel whose last date has one ticker above its average and one new
\* stock, or one below and one without a price.
C27_Witness ==
  /\ Done
  /\ full_data # <<>>
  /\ \/ Len(above_list) = 1 /\ Len(new_stock_list) = 1
     \/ /\ Len(below_list) = 1
        /\ \E t \in Tickers : isna(full_data[Len(full_data)][t])

\* The tickers whose stitched history is injected: columns of the download
\* whose file is read.
Injected ==
  {t \in {"TMPV.NS", "KWIL.NS"} :
     /\ live_data # <<>>
     /\ t \in DOMAIN live_data[1].Close
     /\ stitched_files[t].kind = "series"}
StitchedRows(t) == stitched_files[t].rows
\* The value the download has for t on date d, NaN when it has none.
LiveValue(t, d) ==
  IF d \in IndexOf(live_data) THEN RowOn(live_data, d).Close[t] ELSE NaN
StitchedValue(t, d) ==
  IF d \in IndexOf(StitchedRows(t)) THEN RowOn(StitchedRows(t), d).Close ELSE NaN

\* C28: after the injection the value of an injected ticker is, on every
\* date, the downloaded value when there is one and the value of the
\* stitched history otherwise; every other ticker keeps its values on the
\* dates of the download and is missing on the added dates; the dates are
\* those of the download and of the injected histories, in increasing
\* order, each once.
C28_LiveFirst ==
  (fh_pc = "done" /\ Injected # {}) =>
    /\ IndexOf(fh_full_data)
         = IndexOf(live_data)
             \cup UNION {IndexOf(StitchedRows(t)) : t \in Injected}
    /\ \A k \in 1..Len(fh_full_data) - 1 :
         fh_full_data[k].Date < fh_full_data[k + 1].Date
    /\ \A k \in 1..Len(fh_full_data) :
         LET d == fh_full_data[k].Date
         IN  \A t \in DOMAIN fh_full_data[k].Close :
               fh_full_data[k].Close[t] =
                 IF t \in Injected /\ isna(LiveValue(t, d))
                 THEN StitchedValue(t, d)
                 ELSE LiveValue(t, d)

\* An injection that adds dates before the download, fills a missing
\* downloaded price from the stitched history and leaves a downloaded price
\* in place on a date the stitched history has too.
C28_Witness ==
  /\ fh_pc = "done"
  /\ \E t \in Injected :
       /\ \E d \in IndexOf(StitchedRows(t)) : d \notin IndexOf(live_data)
       /\ \E d \in IndexOf(StitchedRows(t)) \cap IndexOf(live_data) :
            isna(LiveValue(t, d))
       /\ \E d \in IndexOf(StitchedRows(t)) \cap IndexOf(live_data) :
            notna(LiveValue(t, d))
       /\ Len(fh_full_data) > Len(live_data)

\* The universe the second loop can process: it has tickers, and the
\* master panel has a column for one of them.
Processable(name) ==
  name \in DOMAIN task_map /\ task_map[name] \cap master_data.columns # {}

Tasks == {all_tasks[k] : k \in 1..Len(all_tasks)}

ForcedRerun == ph_pc = "run" /\ ph_pc' = "run"

\* C30: the forced rerun that resets the theme selection is taken only
\* when the selected phases differ from the ones recorded in
\* last_phase_hash; it is taken at most once while the user leaves the
\* phases as they are; a theme selection the user makes while the phases
\* are the recorded ones stays as long as the user changes neither; and a
\* script run that is due is followed by the end of the reruns.
C30_ResetOnPhaseChange ==
  /\ [](/\ forced_count <= 1
        /\ manual_sel # <<>> => rrg_multiselect = manual_sel[1])
  /\ [][ForcedRerun => PhaseHash(selected_phases) # last_phase_hash]_vars
  /\ (ph_pc = "run" ~> ph_pc = "idle")

\* The reset has fired once for the selected phases, the user has then
\* chosen themes other than those of the phases, and the script has run.
C30_Witness ==
  /\ ph_pc = "idle"
  /\ forced_count = 1
  /\ manual_sel # <<>>
  /\ DOMAIN quadrants # {}
  /\ manual_sel[1] # valid_tickers_for_phases(quadrants, selected_phases)

====
